---- MODULE Spec2Model ----
(***************************************************************************)
(* A model of the snake identification application: the Markdown cleaner   *)
(* and chat client of ai_analyzer.py, the inference wrapper of predict.py, *)
(* the knowledge base of snake_knowledge.py and the GUI handlers of        *)
(* app_4.py (predict_snake, update_location_manually, ai_deep_analysis).   *)
(*                                                                         *)
(* Texts are sequences of tokens.  Where the code inspects characters (the *)
(* regular expressions, strip) a token is one character; the fixed wording *)
(* of a message is one token.  Glyphs are written by their code point      *)
(* ("U+274C" is the cross mark that prefixes error messages).  A Python    *)
(* value that may be None is NoneVal or Some(v).                           *)
(***************************************************************************)
EXTENDS Integers, Sequences, FiniteSets, TLC

VARIABLES
    predictor,           \* app_4.predictor: NoneVal or Some(class names)
    current_prediction,  \* app_4.current_prediction
    current_knowledge,   \* app_4.current_knowledge
    current_location,    \* app_4.current_location
    knowledge_base,      \* snake_kb.knowledge_base
    temp_file,           \* the file temp_prediction.jpg
    pc,                  \* where the running ai_deep_analysis call stands
    request,             \* the analyze_snake_encounter call of the last handler run, if any
    posts,               \* HTTP POSTs issued by the last handler run
    ret,                 \* what the last handler run returned
    chat,                \* the deepseek_chat call of the last handler run, if any
    last_ok,             \* history: result of the last predict_snake that succeeded
    cli,                 \* predict.py: the last predict_image call and its result
    md,                  \* ai_analyzer.py: a clean_markdown_output run
    net,                 \* train.py: the network, the optimizer and the line main stands at
    calls                \* handler calls the GUI framework runs at the same time

vars == <<predictor, current_prediction, current_knowledge, current_location,
          knowledge_base, temp_file, pc, request, posts, chat, ret, last_ok, cli, md, net, calls>>

guiVars == <<predictor, current_prediction, current_knowledge, current_location,
             knowledge_base, temp_file, pc, request, posts, chat, ret, last_ok>>

-----------------------------------------------------------------------------
(* Python values *)

NoneVal == [tag |-> "None"]
Some(v) == [tag |-> "Some", val |-> v]

ErrGlyph   == "U+274C"   \* cross mark
OkGlyph    == "U+2705"   \* check mark
AlarmGlyph == "U+1F6A8"  \* rotating light
WarnGlyph  == "U+26A0"   \* warning sign
RobotGlyph == "U+1F916"  \* robot face
CupGlyph   == "U+1F3C6"  \* trophy

NL == "\n"

\* the backquote character (a string of the module cannot hold it)
Backquote == "BQ"

\* str.strip() and the regex class \s: the whitespace characters in use.
WhiteSpace == {" ", "\t", NL, "\r"}

IsSpace(c) == c \in WhiteSpace

\* the least element of a non-empty set of numbers
Min(S) == CHOOSE x \in S : \A y \in S : x <= y

Max(S) == CHOOSE x \in S : \A y \in S : x >= y

\* the least element of S, 0 when S is empty (positions start at 1)
First(S) == IF S = {} THEN 0 ELSE Min(S)

\* str.strip(): from the first to the last character that is no whitespace
Strip(s) ==
    LET inked == {k \in 1..Len(s) : ~IsSpace(s[k])}
    IN  IF inked = {} THEN <<>> ELSE SubSeq(s, Min(inked), Max(inked))

\* Python truthiness of an optional string: None and "" are falsy.
Truthy(t) == t # NoneVal /\ t.val # <<>>

-----------------------------------------------------------------------------
(* ai_analyzer.py: clean_markdown_output, one operator per re.sub *)

\* s[i..i+n-1] is n copies of the character d
IsRun(s, i, d, n) ==
    /\ i + n - 1 <= Len(s)
    /\ \A k \in i..(i + n - 1) : s[k] = d

\* first position >= i holding the character c, 0 when there is none
FindChar(s, i, c) == First({k \in i..Len(s) : s[k] = c})

\* first position >= i where s does not hold d (Len(s)+1 if none)
RunEnd(s, i, d) ==
    LET other == {k \in i..Len(s) : s[k] # d}
    IN  IF other = {} THEN Len(s) + 1 ELSE Min(other)

\* number of consecutive d from position i, at most max: greedy d{0,max}
CountRun(s, i, d, max) ==
    LET r == RunEnd(s, i, d) - i
    IN  IF r > max THEN max ELSE r

\* first position >= i that holds no whitespace (Len(s)+1 if none): greedy \s*
SkipSpaces(s, i) ==
    LET inked == {k \in i..Len(s) : ~IsSpace(s[k])}
    IN  IF inked = {} THEN Len(s) + 1 ELSE Min(inked)

\* '^' under re.MULTILINE
LineStart(s, i) == i = 1 \/ s[i - 1] = NL

HeadingMax == 6

\* re.sub(r'^#{1,6}\s*', '', text, flags=re.MULTILINE): from position i on.
\* Each recursion takes the text up to the next match and steps over the match.
RECURSIVE SubHeadingsFrom(_, _)
SubHeadingsFrom(s, i) ==
    LET k == First({m \in i..Len(s) : LineStart(s, m) /\ s[m] = "#"})
    IN  IF k = 0 THEN SubSeq(s, i, Len(s))
        ELSE SubSeq(s, i, k - 1)
             \o SubHeadingsFrom(s, SkipSpaces(s, k + CountRun(s, k, "#", HeadingMax)))

SubHeadings(s) == SubHeadingsFrom(s, 1)

\* The lazy (.*?) followed by the closing delimiter: the first position >= j
\* where n copies of d stand, every character before it being one that '.'
\* matches (any but a newline, unless re.DOTALL).  0 when there is none.
FindClose(s, j, d, n, dotall) ==
    First({k \in j..(Len(s) - n + 1) :
              /\ IsRun(s, k, d, n)
              /\ dotall \/ \A m \in j..(k - 1) : s[m] # NL})

\* where the match of <delim>(.*?)<delim> that starts at i closes, 0 if none does
DelimMatch(s, i, d, n, dotall) ==
    IF IsRun(s, i, d, n) THEN FindClose(s, i + n, d, n, dotall) ELSE 0

\* re.sub of <delim>(.*?)<delim>, the delimiter being n copies of d, by the
\* group (keep) or by '' (not keep); scanning left to right, matches do not overlap.
RECURSIVE SubDelimFrom(_, _, _, _, _, _)
SubDelimFrom(s, i, d, n, dotall, keep) ==
    LET k == First({m \in i..Len(s) : DelimMatch(s, m, d, n, dotall) > 0})
        j == DelimMatch(s, k, d, n, dotall)
    IN  IF k = 0 THEN SubSeq(s, i, Len(s))
        ELSE SubSeq(s, i, k - 1)
             \o (IF keep THEN SubSeq(s, k + n, j - 1) ELSE <<>>)
             \o SubDelimFrom(s, j + n, d, n, dotall, keep)

\* re.sub(r'\*\*(.*?)\*\*', r'\1', text)
SubBold(s) == SubDelimFrom(s, 1, "*", 2, FALSE, TRUE)

\* a cleaner pass that leaves the italics in
SubItalicKeep(s) == s

\* re.sub(r'\*(.*?)\*', r'\1', text)
SubItalic(s) == SubDelimFrom(s, 1, "*", 1, FALSE, TRUE)

\* a pass that takes the fences away and leaves the block
SubFenceKeep(s) == SubDelimFrom(s, 1, Backquote, 3, TRUE, TRUE)

\* re.sub of a fenced block (three backquotes, .*?, three backquotes) by '', flags=re.DOTALL
SubFence(s) == SubDelimFrom(s, 1, Backquote, 3, TRUE, FALSE)

\* re.sub of inline code (backquote, (.*?), backquote) by group 1
SubInlineCode(s) == SubDelimFrom(s, 1, Backquote, 1, FALSE, TRUE)

\* r'\[([^\]]+)\]\([^\)]+\)' matched at i: [where the text ends, where the link
\* ends]; the text runs to the first "]", the url to the first ")", neither empty
LinkMatch(s, i) ==
    LET k == IF s[i] = "[" THEN FindChar(s, i + 1, "]") ELSE 0
        m == IF k >= i + 2 /\ k + 1 <= Len(s) /\ s[k + 1] = "("
             THEN FindChar(s, k + 2, ")") ELSE 0
    IN  IF k > 0 /\ m >= k + 3 THEN <<k, m>> ELSE <<0, 0>>

\* re.sub(r'\[([^\]]+)\]\([^\)]+\)', r'\1', text): a link [text](url) by its text
RECURSIVE SubLinkFrom(_, _)
SubLinkFrom(s, i) ==
    LET k == First({m \in i..Len(s) : LinkMatch(s, m)[1] > 0})
    IN  IF k = 0 THEN SubSeq(s, i, Len(s))
        ELSE SubSeq(s, i, k - 1) \o SubSeq(s, k + 1, LinkMatch(s, k)[1] - 1)
             \o SubLinkFrom(s, LinkMatch(s, k)[2] + 1)

SubLink(s) == SubLinkFrom(s, 1)

\* re.sub(r'\n{3,}', '\n\n', text)
RECURSIVE SubNewlinesFrom(_, _)
SubNewlinesFrom(s, i) ==
    LET k == First({m \in i..Len(s) : IsRun(s, m, NL, 3)})
    IN  IF k = 0 THEN SubSeq(s, i, Len(s))
        ELSE SubSeq(s, i, k - 1) \o <<NL, NL>> \o SubNewlinesFrom(s, RunEnd(s, k, NL))

SubNewlines(s) == SubNewlinesFrom(s, 1)

\* '\n'.join(line.strip() for line in text.split('\n'))
RECURSIVE StripLines(_)
StripLines(s) ==
    LET k == FindChar(s, 1, NL)
    IN  IF k = 0 THEN Strip(s)
        ELSE Strip(SubSeq(s, 1, k - 1)) \o <<NL>> \o StripLines(SubSeq(s, k + 1, Len(s)))

\* AIAnalyzer.clean_markdown_output
clean_markdown_output(text) ==
    IF ~Truthy(text) THEN text
    ELSE Some(Strip(StripLines(SubNewlines(SubLink(SubInlineCode(SubFence(
              SubItalic(SubBold(SubHeadings(text.val))))))))))

-----------------------------------------------------------------------------
(* snake_config.py and predict.py: SnakePredictor *)

\* ClassConfig.config["snake_classes"]["english"]
EnglishClasses ==
    <<"Northern Watersnake", "Common Garter snake", "DeKays Brown snake",
      "Black Rat snake", "Western Diamondback rattlesnake">>

\* initialize_model: chinese_classes (written in pinyin)
ChineseClasses ==
    <<"BeiFangShuiShe", "PuTongWaDaiShe", "DeKaiZongShe", "HeiShuShe",
      "XiBuLingBanXiangWeiShe">>

NumClasses == Len(EnglishClasses)

\* The largest logit the network is taken to output (the smallest is 0:
\* softmax depends on the differences of the logits only).
MaxLogit == 1

\* e^x in thousandths, for the logits in use
ExpMilli(x) ==
    CASE x = 0 -> 1000
      [] x = 1 -> 2718
      [] x = 2 -> 7389
      [] x = 3 -> 20086
      [] OTHER -> 54598

RECURSIVE SumSeq(_)
SumSeq(q) == IF q = <<>> THEN 0 ELSE Head(q) + SumSeq(Tail(q))

\* F.softmax(outputs, dim) of a matrix (a sequence of rows); an entry is the
\* fraction num/den.  dim = 1 normalises along each row, dim = 0 along each column.
SoftmaxAlong(outputs, dim) ==
    [i \in 1..Len(outputs) |->
        [j \in 1..Len(outputs[i]) |->
            [num |-> ExpMilli(outputs[i][j]),
             den |-> IF dim = 1
                     THEN SumSeq([c \in 1..Len(outputs[i]) |-> ExpMilli(outputs[i][c])])
                     ELSE SumSeq([r \in 1..Len(outputs) |-> ExpMilli(outputs[r][j])])]]]

\* a softmax mistakenly taken over the batch dimension
ProbabilitiesOverBatch(outputs) == SoftmaxAlong(outputs, 0)

\* predict_image: probabilities = F.softmax(outputs, dim=1)
Probabilities(outputs) == SoftmaxAlong(outputs, 1)

\* a >= b for fractions with positive denominators
FracGeq(a, b) ==
    IF a.den = b.den THEN a.num >= b.num ELSE a.num * b.den >= b.num * a.den

Injective(f) == \A a, b \in DOMAIN f : f[a] = f[b] => a = b

\* the orders in which the class indices can stand
ClassOrders == {p \in [1..NumClasses -> 1..NumClasses] : Injective(p)}

\* torch.topk(row, k) for 0 <= k <= Len(row): every choice of k distinct indices
\* in non-increasing order of value that leaves no larger value out (the order
\* among equal values is the library's choice).
TopkOrders(row, k) ==
    {SubSeq(ord, 1, k) :
        ord \in {p \in ClassOrders :
                    \A a \in 1..(Len(row) - 1) : FracGeq(row[p[a]], row[p[a + 1]])}}

\* Tensor.squeeze() of a tensor of shape [1, k]: every dimension of size 1 goes,
\* so one element leaves a 0-dimensional tensor.
Squeeze(data) ==
    [shape |-> IF Len(data) = 1 THEN <<>> ELSE <<Len(data)>>, data |-> data]

\* tensor[0] raises IndexError on a 0-dimensional and on an empty tensor
CanIndex0(t) == t.shape # <<>> /\ t.shape[1] > 0

DigitChars == <<"0", "1", "2", "3", "4", "5", "6", "7", "8", "9">>

RECURSIVE Digits(_)
Digits(n) ==
    IF n < 10 THEN <<DigitChars[n + 1]>>
    ELSE Digits(n \div 10) \o <<DigitChars[(n % 10) + 1]>>

\* f"{float(prob)*100:.2f}%": the percentage rounded to hundredths
Confidence(p) ==
    LET h == (2 * 10000 * p.num + p.den) \div (2 * p.den)
    IN  Digits(h \div 100) \o <<".">> \o
        <<DigitChars[((h % 100) \div 10) + 1], DigitChars[(h % 10) + 1]>> \o <<"%">>

\* an error result that drops the path
ErrorResultWithoutPath(image_path, e) == [error |-> e]

\* predict_image: the value of the except clause
ErrorResult(image_path, e) == [image_path |-> image_path, error |-> e]

\* SnakePredictor.predict_image: the results the call can return for the file
\* standing at image_path (file.readable: Image.open succeeds; file.logits: what
\* the network outputs for it).  Every exception ends in the except clause.
predict_image(class_names, image_path, file, top_k) ==
    IF ~file.readable
    THEN {ErrorResult(image_path, "cannot identify image file")}
    ELSE LET probabilities == Probabilities(<<file.logits>>)
         IN  IF top_k < 0 \/ top_k > Len(class_names)
             THEN {ErrorResult(image_path, "selected index k out of range")}
             ELSE {LET top_indices == Squeeze(ord)
                       top_probs   == Squeeze([a \in 1..top_k |-> probabilities[1][ord[a]]])
                   IN  IF ~CanIndex0(top_indices)
                       THEN ErrorResult(image_path, "invalid index of a 0-dim tensor")
                       ELSE [image_path |-> image_path,
                             top_prediction |->
                                 [class |-> class_names[top_indices.data[1]],
                                  confidence |-> Confidence(top_probs.data[1])],
                             all_predictions |->
                                 [a \in 1..top_k |->
                                     [class |-> class_names[top_indices.data[a]],
                                      confidence |-> Confidence(top_probs.data[a])]]]
                   : ord \in TopkOrders(probabilities[1], top_k)}

\* the files predict.py is run on
Logits == [1..NumClasses -> 0..MaxLogit]

Unreadable == [readable |-> FALSE, logits |-> [c \in 1..NumClasses |-> 0]]

Files == {Unreadable} \cup {[readable |-> TRUE, logits |-> l] : l \in Logits}

\* --top-k: any integer; the values around the valid range
TopKs == 0..(NumClasses + 1)

CliIdle ==
    [call |-> NoneVal, result |-> NoneVal, probs |-> NoneVal,
     batch |-> NoneVal, results |-> NoneVal]

\* main: one predict_image call of predict_batch
PredictImage(file, top_k) ==
    /\ cli = CliIdle
    /\ \E r \in predict_image(EnglishClasses, "img.jpg", file, top_k) :
           cli' = [CliIdle EXCEPT
                      !.call = Some([file |-> file, top_k |-> top_k]),
                      !.result = Some(r),
                      !.probs = IF file.readable
                                THEN Some(Probabilities(<<file.logits>>)) ELSE NoneVal]
    /\ UNCHANGED <<guiVars, md, net, calls>>

\* a batch that ends at the first image that fails
RECURSIVE predict_batch_until_error(_, _, _)
predict_batch_until_error(class_names, images, top_k) ==
    IF images = <<>> THEN {<<>>}
    ELSE UNION {IF "error" \in DOMAIN r THEN {<<r>>}
                ELSE {<<r>> \o rest :
                         rest \in predict_batch_until_error(class_names, Tail(images), top_k)}
                : r \in predict_image(class_names, Head(images).path,
                                      Head(images).file, top_k)}

\* SnakePredictor.predict_batch: the result lists the call can return,
\* [self.predict_image(image_path, top_k) for image_path in image_paths]
RECURSIVE predict_batch(_, _, _)
predict_batch(class_names, images, top_k) ==
    IF images = <<>> THEN {<<>>}
    ELSE {<<r>> \o rest :
             r \in predict_image(class_names, Head(images).path, Head(images).file, top_k),
             rest \in predict_batch(class_names, Tail(images), top_k)}

\* the most images of one batch
MaxBatch == 2

\* the files of a batch: one that cannot be read and two pictures, of the
\* last and of the first class
BatchFiles ==
    {Unreadable,
     [readable |-> TRUE, logits |-> [c \in 1..NumClasses |-> c - 1]],
     [readable |-> TRUE, logits |-> [c \in 1..NumClasses |-> NumClasses - c]]}

PathOf(i) ==
    CASE i = 1 -> "img1.jpg"
      [] i = 2 -> "img2.jpg"
      [] i = 3 -> "img3.jpg"
      [] OTHER -> "img4.jpg"

\* main: valid_images, the paths given on the command line that exist
Batches ==
    UNION {{[i \in 1..n |-> [path |-> PathOf(i), file |-> f[i]]] :
               f \in [1..n -> BatchFiles]} : n \in 1..MaxBatch}

BatchTopKs == {2, 3}

\* main: results = predictor.predict_batch(valid_images, args.top_k)
PredictBatch(images, top_k) ==
    /\ cli = CliIdle
    /\ \E rs \in predict_batch(EnglishClasses, images, top_k) :
           cli' = [CliIdle EXCEPT
                      !.batch = Some([images |-> images, top_k |-> top_k]),
                      !.results = Some(rs)]
    /\ UNCHANGED <<guiVars, md, net, calls>>

\* the next run of predict.py
CliReset ==
    /\ cli # CliIdle
    /\ cli' = CliIdle
    /\ UNCHANGED <<guiVars, md, net, calls>>

-----------------------------------------------------------------------------
(* ai_analyzer.py: test_analyzer's sample and runs of clean_markdown_output *)

\* test_analyzer: test_text of ai_analyzer.py, each Chinese character written
\* as one Latin letter
test_text ==
    <<
      "#", "#", " ", "z", "s", "b", "t", NL, NL, "*", "*", "z", "s", "c", "i", "*",
      "*", "n", "r", NL, NL, "*", "z", "s", "x", "i", "*", NL, NL, Backquote, "d", "m",
      Backquote, "n", "r", NL, NL, Backquote, Backquote, Backquote, NL, "d", "m", "k",
      NL, Backquote, Backquote, Backquote, NL, NL, "[", "l", "j", "]", "(", "h", "t",
      "t", "p", ":", "/", "/", "e", "x", "a", "m", "p", "l", "e", ".", "c", "o", "m",
      ")"
    >>

\* test_analyzer: test_text of ai_analyzer_en.py
test_text_en ==
    <<
      "#", "#", " ", "T", "h", "i", "s", " ", "i", "s", " ", "a", " ", "t", "i", "t",
      "l", "e", NL, NL, "*", "*", "T", "h", "i", "s", " ", "i", "s", " ", "b", "o",
      "l", "d", "*", "*", " ", "c", "o", "n", "t", "e", "n", "t", NL, NL, "*", "T",
      "h", "i", "s", " ", "i", "s", " ", "i", "t", "a", "l", "i", "c", "*", NL, NL,
      Backquote, "c", "o", "d", "e", Backquote, " ", "c", "o", "n", "t", "e", "n", "t",
      NL, NL, Backquote, Backquote, Backquote, NL, "c", "o", "d", "e", " ", "b", "l",
      "o", "c", "k", NL, Backquote, Backquote, Backquote, NL, NL, "[", "l", "i", "n",
      "k", "]", "(", "h", "t", "t", "p", ":", "/", "/", "e", "x", "a", "m", "p", "l",
      "e", ".", "c", "o", "m", ")"
    >>

\* the characters the cleaner tells apart, and one it does not
Alphabet == {"#", "*", Backquote, "[", "]", "(", ")", NL, " ", "a"}

\* the longest text tried besides the samples
MaxLen == 2

RECURSIVE Texts(_)
Texts(n) ==
    IF n = 0 THEN {<<>>}
    ELSE LET shorter == Texts(n - 1)
         IN  shorter \cup {Append(t, c) : t \in {u \in shorter : Len(u) = n - 1}, c \in Alphabet}

\* Markdown as the chat API writes it around a text x
Bold(x) == <<"*", "*">> \o x \o <<"*", "*">>

Italic(x) == <<"*">> \o x \o <<"*">>

InlineCode(x) == <<Backquote>> \o x \o <<Backquote>>

Link(x, url) == <<"[">> \o x \o <<"]", "(">> \o url \o <<")">>

Fence(x) == <<Backquote, Backquote, Backquote>> \o x \o <<Backquote, Backquote, Backquote>>

\* texts without markers, and the contents of code blocks
Inner == {<<"a">>, <<"a", " ", "b">>}

Blocks == {<<"a">>, <<NL, "a", " ", "b", NL>>}

Url == <<"h", ":", "/", "/", "c">>

MarkedTexts ==
    {Bold(x) : x \in Inner} \cup {Italic(x) : x \in Inner}
    \cup {InlineCode(x) : x \in Inner} \cup {Link(x, Url) : x \in Inner}
    \cup {Fence(y) : y \in Blocks}
    \cup {<<"c", " ">> \o Fence(y) \o <<" ", "d">> : y \in Blocks}
    \cup {<<"c", " ">> \o Bold(x) \o <<" ", "d">> : x \in Inner}

\* whitespace-only lines, more than six "#", an indented heading, nested and
\* unbalanced "*"
EdgeTexts ==
    {<<"a", NL, " ", NL, NL, "b">>,
     <<"a", NL, " ", NL, " ", NL, "b">>,
     <<"#", "#", "#", "#", "#", "#", "#", "a">>,
     <<" ", "#", " ", "a">>,
     <<"*", "#", "*">>,
     <<"*", "*", "a", "*">>}

MdInputs ==
    {NoneVal, Some(test_text), Some(test_text_en)}
    \cup {Some(t) : t \in Texts(MaxLen) \cup MarkedTexts \cup EdgeTexts}

MdIdle == [phase |-> "idle", input |-> NoneVal, cleaned |-> NoneVal, again |-> NoneVal]

\* cleaned = ai_analyzer.clean_markdown_output(text)
Clean(text) ==
    /\ md.phase = "idle"
    /\ md' = [phase |-> "cleaned", input |-> text,
              cleaned |-> clean_markdown_output(text), again |-> NoneVal]
    /\ UNCHANGED <<guiVars, cli, net, calls>>

\* the cleaner applied to its own output
CleanAgain ==
    /\ md.phase = "cleaned"
    /\ md' = [md EXCEPT !.phase = "again", !.again = clean_markdown_output(md.cleaned)]
    /\ UNCHANGED <<guiVars, cli, net, calls>>

CleanReset ==
    /\ md.phase = "again"
    /\ md' = MdIdle
    /\ UNCHANGED <<guiVars, cli, net, calls>>

-----------------------------------------------------------------------------
(* snake_knowledge.py: SnakeKnowledge.  A text of an entry is cut down to the *)
(* tokens the code looks at (the glyphs, the word JuDu "highly venomous")    *)
(* and one token for the rest.                                               *)

Entry(description, characteristics, habitat, safety, behavior, conservation, tips) ==
    [description |-> description, characteristics |-> characteristics,
     habitat |-> habitat, safety |-> safety, behavior |-> behavior,
     conservation |-> conservation, tips |-> tips]

\* SnakeKnowledge.__init__: self.knowledge_base
SnakeKnowledgeInit ==
    [n \in {ChineseClasses[i] : i \in 1..Len(ChineseClasses)} |->
        CASE n = "BeiFangShuiShe" ->
                 Entry(<<"WuDu", "water snake">>, <<"stout, banded">>, <<"ponds and rivers">>,
                       <<OkGlyph, " ", "WuDu", "harmless">>, <<"diurnal, semi-aquatic">>,
                       <<"stable">>, <<"keep distance">>)
          [] n = "PuTongWaDaiShe" ->
                 Entry(<<"garter snake">>, <<"slender, three stripes">>, <<"anywhere">>,
                       <<OkGlyph, " ", "WuDu", "gentle">>, <<"diurnal, agile">>,
                       <<"very stable">>, <<"friend of the garden">>)
          [] n = "DeKaiZongShe" ->
                 Entry(<<"small", "WuDu", "brown snake">>, <<"small, brown">>, <<"leaf litter">>,
                       <<OkGlyph, " ", "completely", "WuDu">>, <<"nocturnal, slow">>,
                       <<"stable">>, <<"do not harm">>)
          [] n = "HeiShuShe" ->
                 Entry(<<"large", "WuDu", "rat snake">>, <<"large, glossy black">>, <<"forests, barns">>,
                       <<OkGlyph, " ", "WuDu", "large and strong">>, <<"diurnal, climber">>,
                       <<"fairly stable">>, <<"ask a professional to move it">>)
          [] OTHER ->
                 Entry(<<"JuDu", "rattlesnake">>, <<"stout, diamond pattern, rattle">>,
                       <<"deserts, grassland">>,
                       <<WarnGlyph, WarnGlyph, " ", "JuDu", "can kill, call emergency">>,
                       <<"nocturnal, rattles when threatened">>, <<"declining">>,
                       <<AlarmGlyph, " ", "stay calm, move away, see a doctor">>)]

EmptyEntry == Entry(<<>>, <<>>, <<>>, <<>>, <<>>, <<>>, <<>>)

\* the order of knowledge_base.items(): insertion order
KbOrder == ChineseClasses

Contains(text, token) == \E i \in 1..Len(text) : text[i] = token

\* A knowledge base operation returns [ret |-> its value, kb |-> the knowledge
\* base it leaves].

\* a lookup that stores a default for a missing name (dict.setdefault)
get_snake_info_setdefault(kb, snake_name) ==
    IF snake_name \in DOMAIN kb
    THEN [ret |-> Some(kb[snake_name]), kb |-> kb]
    ELSE [ret |-> NoneVal,
          kb |-> [n \in DOMAIN kb \cup {snake_name} |->
                      IF n \in DOMAIN kb THEN kb[n] ELSE EmptyEntry]]

\* SnakeKnowledge.get_snake_info: self.knowledge_base.get(snake_name, None)
get_snake_info(kb, snake_name) ==
    [ret |-> IF snake_name \in DOMAIN kb THEN Some(kb[snake_name]) ELSE NoneVal,
     kb |-> kb]

\* SnakeKnowledge.get_all_snakes: list(self.knowledge_base.keys())
get_all_snakes(kb) ==
    [ret |-> SelectSeq(KbOrder, LAMBDA n : n \in DOMAIN kb), kb |-> kb]

\* a profile whose heading never warns
format_snake_info_always_ok(kb, snake_name) ==
    LET got == get_snake_info(kb, snake_name)
    IN  IF got.ret = NoneVal
        THEN [ret |-> <<"ZanWu", " ", snake_name, " ", "no detailed information">>,
              kb |-> got.kb]
        ELSE [ret |-> <<OkGlyph, " ", "**", snake_name, "**", " ", "detailed profile", NL>>
                      \o got.ret.val.safety,
              kb |-> got.kb]

\* SnakeKnowledge.format_snake_info
format_snake_info(kb, snake_name) ==
    LET got  == get_snake_info(kb, snake_name)
        info == got.ret
    IN  IF info = NoneVal
        THEN [ret |-> <<"ZanWu", " ", snake_name, " ", "no detailed information">>,
              kb |-> got.kb]
        ELSE LET safety_level ==
                     IF Contains(info.val.safety, "JuDu") THEN AlarmGlyph ELSE OkGlyph
             IN  [ret |-> Strip(<<NL, safety_level, " ", "**", snake_name, "**", " ",
                                  "detailed profile", NL>>
                                \o info.val.description \o <<NL>>
                                \o info.val.characteristics \o <<NL>>
                                \o info.val.habitat \o <<NL>>
                                \o info.val.safety \o <<NL>>
                                \o info.val.behavior \o <<NL>>
                                \o info.val.conservation \o <<NL>>
                                \o info.val.tips \o <<NL, " ">>),
                  kb |-> got.kb]

\* str.lower() on the keywords in use
Lower(token) ==
    CASE token = "WUDU" -> "wudu"
      [] token = "Rattlesnake" -> "rattlesnake"
      [] token = "WuDu" -> "wudu"
      [] token = "JuDu" -> "judu"
      [] OTHER -> token

AllText(info) ==
    info.description \o info.characteristics \o info.habitat \o info.safety
    \o info.behavior \o info.conservation \o info.tips

\* SnakeKnowledge.search_by_keyword
search_by_keyword(kb, keyword) ==
    [ret |-> SelectSeq(KbOrder,
                 LAMBDA n : /\ n \in DOMAIN kb
                            /\ \/ \E i \in 1..Len(AllText(kb[n])) :
                                      Lower(AllText(kb[n])[i]) = Lower(keyword)
                               \/ Lower(n) = Lower(keyword)),
     kb |-> kb]

\* get_snake_knowledge: snake_kb.format_snake_info(snake_name)
get_snake_knowledge(kb, snake_name) == format_snake_info(kb, snake_name)

\* names and keywords the knowledge base is asked about
KbQueries == {ChineseClasses[i] : i \in 1..NumClasses} \cup {"Unknown snake"}

Keywords == {"JuDu", "WUDU", "Unknown snake"}

-----------------------------------------------------------------------------
(* ai_analyzer.py: get_user_location, deepseek_chat, analyze_snake_encounter *)

\* AIAnalyzer.get_user_location
get_user_location(location_text) ==
    IF Truthy(location_text)
    THEN [location |-> Strip(location_text.val), source |-> "user_input",
          details |-> <<"user specified location: ">> \o location_text.val]
    ELSE [location |-> <<"WeiZhiDing">>, source |-> "unknown",
          details |-> <<"please give your location in the text">>]

\* What one requests.post(...) and the reading of its response can come to.
\*   raises:    the POST raises exc
\*   status:    a response whose status_code is not 200
\*   badjson:   status 200, response.json() raises exc
\*   nochoices / emptychoices: status 200, JSON without "choices" / with none
\*   malformed: status 200, choices[0] without ["message"]["content"]
\*   content:   status 200 and a content (null, or a text)
Response(kind, exc, status, content) ==
    [kind |-> kind, exc |-> exc, status |-> status, content |-> content]

HttpOk == 200

RawContents ==
    {NoneVal, Some(<<"#", " ", "a", NL, "*", "*", "b", "*", "*">>)}

Responses ==
    {Response("raises", e, 0, NoneVal) : e \in {"ConnectionError", "OSError"}}
    \cup {Response("status", "none", s, NoneVal) : s \in {500}}
    \cup {Response("badjson", e, HttpOk, NoneVal) :
              e \in {"RequestsJSONDecodeError", "JSONDecodeError"}}
    \cup {Response(k, "none", HttpOk, NoneVal) : k \in {"nochoices", "emptychoices"}}
    \cup {Response("malformed", "KeyError", HttpOk, NoneVal)}
    \cup {Response("content", "none", HttpOk, c) : c \in RawContents}

Failed(response) == response.kind # "content"

\* subclasses of requests.exceptions.RequestException / of json.JSONDecodeError
RequestExceptions == {"ConnectionError", "Timeout", "RequestsJSONDecodeError"}
JSONDecodeErrors  == {"JSONDecodeError", "RequestsJSONDecodeError"}

\* deepseek_chat: the except clauses, in their order
ExceptClause(exc) ==
    IF exc \in RequestExceptions
    THEN <<ErrGlyph, " ", "network request error: ", exc>>
    ELSE IF exc \in JSONDecodeErrors
    THEN <<ErrGlyph, " ", "JSON parsing error: ", exc>>
    ELSE <<ErrGlyph, " ", "unknown error: ", exc>>

\* the chat client of test.py, whose messages carry no glyph and which has no
\* catch-all clause
deepseek_chat_test_py(response) ==
    [raised |-> response.exc \notin (RequestExceptions \cup {"none"}),
     again |-> FALSE,
     value |-> CASE response.kind = "content" -> response.content
                 [] response.kind = "status" -> Some(<<"Error: ">> \o Digits(response.status))
                 [] response.kind \in {"nochoices", "emptychoices"} ->
                        Some(<<"No response content found in API response.">>)
                 [] OTHER -> Some(<<"Request Error: ", response.exc>>)]

\* a chat client that sends the request anew when it failed
deepseek_chat_retry(response) ==
    [raised |-> FALSE, again |-> Failed(response),
     value |-> IF response.kind = "content" THEN clean_markdown_output(response.content)
               ELSE Some(<<ErrGlyph, " ", "failed">>)]

\* AIAnalyzer.deepseek_chat, from the response on: whether it raises, whether it
\* sends the request again, and the value it returns.
deepseek_chat(response) ==
    [raised |-> FALSE,
     again  |-> FALSE,
     value  |->
        CASE response.kind \in {"raises", "badjson", "malformed"} ->
                 Some(ExceptClause(response.exc))
          [] response.kind = "status" ->
                 Some(<<ErrGlyph, " ", "API call error: ">> \o Digits(response.status)
                      \o <<" - ", "response.text">>)
          [] response.kind \in {"nochoices", "emptychoices"} ->
                 Some(<<ErrGlyph, " ", "no content found in API response">>)
          [] OTHER -> clean_markdown_output(response.content)]

\* analyze_snake_encounter: what the prompt is built from
Prompt(snake_species, confidence, user_description, location_info, snake_knowledge) ==
    [snake_species |-> snake_species, confidence |-> confidence,
     user_description |-> user_description,
     location |-> location_info.location, details |-> location_info.details,
     snake_knowledge |-> snake_knowledge]

-----------------------------------------------------------------------------
(* app_4.py: the global state and the three GUI handlers.  A coordinate is an *)
(* integer number of ten-thousandths of a degree.                            *)

DegreeScale == 10000
BeijingLat  == 399042
BeijingLon  == 1164074
MaxLat      == 900000
MaxLon      == 1800000

\* a key the JSON object does not have
Absent == [tag |-> "Absent"]

\* a string that float() cannot convert
Text == [tag |-> "Text"]

\* f"{x:.4f}"
Format4(x) ==
    LET a == IF x < 0 THEN -x ELSE x
        f == a % DegreeScale
    IN  (IF x < 0 THEN <<"-">> ELSE <<>>) \o Digits(a \div DegreeScale) \o <<".">>
        \o <<DigitChars[(f \div 1000) + 1], DigitChars[((f \div 100) % 10) + 1],
             DigitChars[((f \div 10) % 10) + 1], DigitChars[(f % 10) + 1]>>

\* f"{x}" of a value that may be None
Str(t) == IF t = NoneVal THEN <<"None">> ELSE t.val

Location(lat, lon, address) == [lat |-> lat, lon |-> lon, address |-> address]

DefaultLocation == Location(Some(BeijingLat), Some(BeijingLon), <<"BeiJingShi">>)

\* dict.get(key, default)
DictGet(value, default) == IF value = Absent THEN default ELSE value

\* get_location_from_ip, from the answer of ipapi.co on (ok: the request did
\* not raise, the status is 200 and the body is JSON)
get_location_from_ip(answer) ==
    IF ~answer.ok THEN DefaultLocation
    ELSE LET city    == DictGet(answer.city, Some(<<>>))
             country == DictGet(answer.country_name, Some(<<>>))
         IN  Location(DictGet(answer.latitude, Some(BeijingLat)),
                      DictGet(answer.longitude, Some(BeijingLon)),
                      IF Truthy(city) /\ Truthy(country)
                      THEN city.val \o <<",", " ">> \o country.val
                      ELSE <<"WeiZhiJianCeChengGong">>)

IpAnswer(ok, latitude, longitude, city, country_name) ==
    [ok |-> ok, latitude |-> latitude, longitude |-> longitude,
     city |-> city, country_name |-> country_name]

IpAnswers ==
    {IpAnswer(FALSE, Absent, Absent, Absent, Absent),
     IpAnswer(TRUE, Some(407128), Some(-740060), Some(<<"New York">>), Some(<<"United States">>)),
     IpAnswer(TRUE, Absent, Absent, Absent, Absent),
     IpAnswer(TRUE, NoneVal, NoneVal, Some(<<>>), NoneVal)}

\* create_interactive_map formats lat and lon with .4f in its body and in both
\* of its fallbacks: with a None it raises, otherwise it returns a figure
MapRaises(lat, lon) == lat = NoneVal \/ lon = NoneVal

Figure(lat, lon) == Some(<<"map at ">> \o Format4(lat.val) \o <<", ">> \o Format4(lon.val))

\* Python truthiness of a number input: None and 0 are falsy
Falsy(x) == x = NoneVal \/ x = Some(0)

InRange(lat, lon) ==
    /\ -MaxLat <= lat.val /\ lat.val <= MaxLat
    /\ -MaxLon <= lon.val /\ lon.val <= MaxLon

\* What a handler hands back: the path it took and its outputs; raised when an
\* exception leaves it.
Return(handler, path, out) ==
    [handler |-> handler, path |-> path, raised |-> FALSE, out |-> out, args |-> NoneVal]
Raise(handler, path) ==
    [handler |-> handler, path |-> path, raised |-> TRUE, out |-> <<>>, args |-> NoneVal]

\* a handler that has not returned yet
Running(handler) ==
    [handler |-> handler, path |-> "running", raised |-> FALSE, out |-> <<>>, args |-> NoneVal]

\* no deepseek_chat call was made
NoChat == [response |-> NoneVal, raised |-> FALSE, value |-> NoneVal]

\* update_location_manually: an error return draws the map at the current
\* location, inside the handler's except clauses
ErrorAtCurrent(loc, path, status) ==
    IF MapRaises(loc.lat, loc.lon) THEN Raise("update_location_manually", path)
    ELSE Return("update_location_manually", path, <<Figure(loc.lat, loc.lon), status>>)

\* update_location_manually(lat_input, lon_input) called with current_location = loc:
\* [loc |-> current_location afterwards, ret |-> what it returns]
update_location_manually(loc, lat_input, lon_input) ==
    LET lat == IF Falsy(lat_input) THEN loc.lat ELSE lat_input
        lon == IF Falsy(lon_input) THEN loc.lon ELSE lon_input
    IN  IF lat = Text \/ lon = Text
        THEN [loc |-> loc,
              ret |-> ErrorAtCurrent(loc, "value_error",
                          <<ErrGlyph, " ", "enter valid numeric coordinates">>)]
        ELSE IF lat = NoneVal \/ (-MaxLat <= lat.val /\ lat.val <= MaxLat /\ lon = NoneVal)
        THEN [loc |-> loc,
              ret |-> ErrorAtCurrent(loc, "exception",
                          <<ErrGlyph, " ", "location update failed: ", "TypeError">>)]
        ELSE IF ~(-MaxLat <= lat.val /\ lat.val <= MaxLat) \/ ~InRange(lat, lon)
        THEN [loc |-> loc,
              ret |-> IF MapRaises(loc.lat, loc.lon)
                      THEN ErrorAtCurrent(loc, "exception",
                               <<ErrGlyph, " ", "location update failed: ", "TypeError">>)
                      ELSE ErrorAtCurrent(loc, "out_of_range",
                               <<ErrGlyph, " ", "coordinates out of valid range">>)]
        ELSE [loc |-> Location(lat, lon,
                          <<"JingDu: ">> \o Format4(lon.val) \o <<", ", "WeiDu: ">>
                          \o Format4(lat.val)),
              ret |-> Return("update_location_manually", "updated",
                          <<Figure(lat, lon),
                            <<OkGlyph, " ", "location updated: ", "WeiDu ">> \o Format4(lat.val)
                            \o <<", ", "JingDu ">> \o Format4(lon.val)>>)]

\* initialize_model: predictor.predict_image(temp_path, top_k=5)
GuiTopK == 5

TempPath == "temp_prediction.jpg"

\* The five outputs of predict_snake on each path that does not succeed.
ModelNotLoaded ==
    <<Some(<<ErrGlyph, " ", "model not loaded, check the model file">>), NoneVal,
      Some(<<"model not loaded">>), Some(<<"model not loaded, no knowledge">>),
      Some(<<"upload a picture first">>)>>

NoImage ==
    <<Some(<<"please upload a snake picture">>), NoneVal, Some(<<"waiting for a picture">>),
      Some(<<"waiting for a picture to look up knowledge">>),
      Some(<<"upload a picture first">>)>>

\* error outputs that leave out the chart
ErrorOutputsWithoutChart(error_msg) ==
    <<Some(error_msg), Some(error_msg), Some(error_msg),
      Some(<<"identify a picture successfully first">>)>>

\* predict_snake: return error_msg, None, error_msg, error_msg, <panel text>
ErrorOutputs(error_msg) ==
    <<Some(error_msg), NoneVal, Some(error_msg), Some(error_msg),
      Some(<<"identify a picture successfully first">>)>>

\* predict_snake: the text shown when the knowledge base has no profile
FallbackKnowledge(best_pred) ==
    <<"U+1F40D", " ", best_pred.class, NL, "confidence: ">> \o best_pred.confidence
    \o <<NL, "general safety reminder">>

RECURSIVE DetailedText(_, _)
DetailedText(all_predictions, i) ==
    IF i > Len(all_predictions) THEN <<>>
    ELSE Digits(i) \o <<". ", all_predictions[i].class, ": ">>
         \o all_predictions[i].confidence \o <<NL>> \o DetailedText(all_predictions, i + 1)

\* a predict_snake that keeps the knowledge text of the upload before
PredictSuccessStaleKnowledge(kb, result) ==
    [current_prediction |-> Some(result.top_prediction),
     current_knowledge  |-> IF current_knowledge = NoneVal
                            THEN Some(<<"ZanWu">>) ELSE current_knowledge,
     kb  |-> kb,
     out |-> <<Some(<<CupGlyph>>), Some(<<"pie chart">>), Some(<<>>), Some(<<>>),
               Some(<<OkGlyph>>)>>]

\* a predict_snake that caches the prediction and forgets the knowledge text
PredictSuccessWithoutKnowledge(kb, result) ==
    [current_prediction |-> Some(result.top_prediction),
     current_knowledge  |-> NoneVal,
     kb  |-> kb,
     out |-> <<Some(<<CupGlyph>>), Some(<<"pie chart">>), Some(<<>>), Some(<<>>),
               Some(<<OkGlyph>>)>>]

\* predict_snake, the part after predictor.predict_image returned result without
\* 'error': the globals it sets and the outputs it returns
PredictSuccess(kb, result) ==
    LET best_pred == result.top_prediction
        known     == get_snake_knowledge(kb, best_pred.class)
        shown     == IF known.ret = <<>> \/ Contains(known.ret, "ZanWu")
                     THEN FallbackKnowledge(best_pred) ELSE known.ret
    IN  [current_prediction |-> Some(best_pred),
         current_knowledge  |-> Some(known.ret),
         kb  |-> known.kb,
         out |-> <<Some(<<CupGlyph, " ", "best prediction: ", best_pred.class, " (">>
                        \o best_pred.confidence \o <<")">>),
                   Some(<<"pie chart">>),
                   Some(<<"detailed results:", NL, NL>>
                        \o DetailedText(result.all_predictions, 1)),
                   Some(shown),
                   Some(<<OkGlyph, " ", "identified: ", best_pred.class, " (">>
                        \o best_pred.confidence \o <<")">>)>>]

\* An upload: None (the image was cleared) or a PIL image; saveable: image.save
\* to a .jpg succeeds; file: what predict_image finds in the saved file.
Upload(saveable, file) == Some([saveable |-> saveable, file |-> file])

\* a picture of class c: the logit of c is the largest, no two are equal
PictureOf(c) ==
    [readable |-> TRUE,
     logits |-> [i \in 1..NumClasses |-> (i + NumClasses - 1 - c) % NumClasses]]

Uploads ==
    {NoneVal, Upload(FALSE, Unreadable), Upload(TRUE, Unreadable)}
    \cup {Upload(TRUE, PictureOf(c)) : c \in {1, NumClasses}}

\* a failing upload that leaves the cached value in place
KeptOnFailure(cached) == cached

\* predict_snake, on each path that does not succeed:
\* current_prediction = None, current_knowledge = None
ClearedOnFailure(cached) == NoneVal

\* predict_snake(image)
PredictSnake(image) ==
    /\ pc = "idle"
    /\ IF predictor = NoneVal
       THEN /\ current_prediction' = ClearedOnFailure(current_prediction)
            /\ current_knowledge' = ClearedOnFailure(current_knowledge)
            /\ ret' = Return("predict_snake", "model_not_loaded", ModelNotLoaded)
            /\ UNCHANGED <<knowledge_base, temp_file, last_ok>>
       ELSE IF image = NoneVal
       THEN /\ current_prediction' = ClearedOnFailure(current_prediction)
            /\ current_knowledge' = ClearedOnFailure(current_knowledge)
            /\ ret' = Return("predict_snake", "no_image", NoImage)
            /\ UNCHANGED <<knowledge_base, temp_file, last_ok>>
       ELSE IF ~image.val.saveable
       THEN \* image.save raises: the except clause
            /\ current_prediction' = ClearedOnFailure(current_prediction)
            /\ current_knowledge' = ClearedOnFailure(current_knowledge)
            /\ ret' = Return("predict_snake", "exception",
                             ErrorOutputs(<<"processing error: ", "cannot write mode RGBA as JPEG">>))
            /\ UNCHANGED <<knowledge_base, temp_file, last_ok>>
       ELSE \* the image is saved, classified, and the file removed
            \E result \in predict_image(predictor.val, TempPath, image.val.file, GuiTopK) :
               /\ temp_file' = NoneVal
               /\ IF "error" \in DOMAIN result
                  THEN /\ current_prediction' = ClearedOnFailure(current_prediction)
                       /\ current_knowledge' = ClearedOnFailure(current_knowledge)
                       /\ ret' = Return("predict_snake", "predictor_error",
                                        ErrorOutputs(<<"prediction failed: ", result.error>>))
                       /\ UNCHANGED <<knowledge_base, last_ok>>
                  ELSE LET done == PredictSuccess(knowledge_base, result)
                       IN  /\ current_prediction' = done.current_prediction
                           /\ current_knowledge' = done.current_knowledge
                           /\ knowledge_base' = done.kb
                           /\ ret' = Return("predict_snake", "success", done.out)
                           /\ last_ok' = Some([class |-> result.top_prediction.class,
                                               confidence |-> result.top_prediction.confidence,
                                               knowledge |->
                                                   format_snake_info(knowledge_base,
                                                       result.top_prediction.class).ret])
    /\ request' = NoneVal /\ posts' = 0 /\ chat' = NoChat
    /\ UNCHANGED <<predictor, current_location, pc, cli, md, net, calls>>

\* a location update that also drops the cached prediction
UpdateLocationManuallyClearing(lat_input, lon_input) ==
    /\ pc = "idle"
    /\ LET done == update_location_manually(current_location, lat_input, lon_input)
       IN  /\ current_location' = done.loc
           /\ ret' = [done.ret EXCEPT !.args = <<lat_input, lon_input>>]
    /\ current_prediction' = NoneVal
    /\ current_knowledge' = NoneVal
    /\ request' = NoneVal /\ posts' = 0 /\ chat' = NoChat
    /\ UNCHANGED <<predictor, knowledge_base, temp_file, pc, last_ok, cli, md, net, calls>>

\* update_location_btn.click
UpdateLocationManually(lat_input, lon_input) ==
    /\ pc = "idle"
    /\ LET done == update_location_manually(current_location, lat_input, lon_input)
       IN  /\ current_location' = done.loc
           /\ ret' = [done.ret EXCEPT !.args = <<lat_input, lon_input>>]
    /\ request' = NoneVal /\ posts' = 0 /\ chat' = NoChat
    /\ UNCHANGED <<predictor, current_prediction, current_knowledge, knowledge_base,
                   temp_file, pc, last_ok, cli, md, net, calls>>

LatInputs == {NoneVal, Some(0), Some(MaxLat), Some(MaxLat + 1), Text}
LonInputs == {NoneVal, Some(0), Some(-MaxLon), Some(MaxLon + 1)}

\* ai_deep_analysis: the guidance returned when no prediction is cached
NoPredictionGuidance ==
    <<ErrGlyph, " ", "cannot run the deep analysis", NL, NL,
      "upload a snake picture first, then use the deep analysis">>

\* ai_deep_analysis: the guidance returned for an empty description
InsufficientDescription ==
    <<ErrGlyph, " ", "description insufficient", NL, NL,
      "describe your situation in the text box">>

\* a test of the description that does not strip it
BlankNoStrip(user_description) == ~Truthy(user_description)

\* not user_description or not user_description.strip()
Blank(user_description) ==
    ~Truthy(user_description) \/ Strip(user_description.val) = <<>>

\* ai_deep_analysis, lines 284-299: the arguments of analyze_snake_encounter
AnalysisArgs(prediction, knowledge, location, user_description) ==
    Prompt(prediction.val.class, prediction.val.confidence, user_description.val,
           get_user_location(Some(location.address)),
           IF Truthy(knowledge) THEN knowledge.val ELSE <<"ZanWu", "XiangXiZhiShi">>)

\* ai_deep_analysis: the except clause
AnalysisError(e) ==
    <<ErrGlyph, " ", "an error occurred during the analysis", NL, NL, "error: ", e>>

\* ai_deep_analysis, lines 301-320: the report
Report(prompt, location, analysis_result) ==
    Strip(<<NL, RobotGlyph, " ", "AI deep analysis report", NL, NL,
            "subject: ", prompt.snake_species, " (confidence: ">> \o prompt.confidence
          \o <<")", NL, "location: ">> \o prompt.location
          \o <<NL, "coordinates: ">> \o Format4(location.lat.val) \o <<", ">>
          \o Format4(location.lon.val)
          \o <<NL, "time: ", "now", NL, NL, "---", NL, NL>>
          \o Str(analysis_result)
          \o <<NL, NL, "---", NL, NL, WarnGlyph, " ", "reminder: for reference only", NL, " ">>)

\* What the chat API server does with a POST: it answers (or the connection
\* fails), or it holds the connection and stays silent.
Servers == {"answers", "silent"}

\* a POST that never comes back
NeverAnswers(req) == FALSE

\* requests.post(self.base_url, headers=headers, json=data), no timeout given:
\* the call comes back when the server answers or the connection fails
Answers(req) == req.server = "answers"

\* analyze_button.click: ai_deep_analysis(user_description), up to the POST of
\* deepseek_chat, where the call waits for the response
AiDeepAnalysis(user_description) ==
    /\ pc = "idle"
    /\ IF current_prediction = NoneVal
       THEN /\ ret' = [Return("ai_deep_analysis", "no_prediction", NoPredictionGuidance)
                          EXCEPT !.args = user_description]
            /\ posts' = 0 /\ request' = NoneVal /\ chat' = NoChat
            /\ UNCHANGED pc
       ELSE IF Blank(user_description)
       THEN /\ ret' = [Return("ai_deep_analysis", "no_description", InsufficientDescription)
                          EXCEPT !.args = user_description]
            /\ posts' = 0 /\ request' = NoneVal /\ chat' = NoChat
            /\ UNCHANGED pc
       ELSE /\ \E server \in Servers :
                   request' = Some([call |-> user_description,
                                    prompt |-> AnalysisArgs(current_prediction,
                                                   current_knowledge, current_location,
                                                   user_description),
                                    server |-> server])
            /\ posts' = 1
            /\ pc' = "awaiting"
            /\ chat' = NoChat
            /\ ret' = Running("ai_deep_analysis")
    /\ UNCHANGED <<predictor, current_prediction, current_knowledge, current_location,
                   knowledge_base, temp_file, last_ok, cli, md, net, calls>>

\* the most POSTs one call is followed through
MaxPosts == 2

\* requests.post comes back: deepseek_chat returns, and ai_deep_analysis with it
AiReturn(response) ==
    /\ pc = "awaiting"
    /\ Answers(request.val)
    /\ LET r == deepseek_chat(response)
       IN  /\ chat' = [response |-> Some(response), raised |-> r.raised, value |-> r.value]
           /\ IF r.again /\ posts < MaxPosts
              THEN /\ posts' = posts + 1
                   /\ UNCHANGED <<pc, ret>>
              ELSE /\ posts' = posts
                   /\ pc' = "idle"
                   /\ ret' = [Return("ai_deep_analysis",
                                  IF r.raised \/ MapRaises(current_location.lat, current_location.lon)
                                  THEN "exception" ELSE "report",
                                  IF r.raised THEN AnalysisError(response.exc)
                                  ELSE IF MapRaises(current_location.lat, current_location.lon)
                                  THEN AnalysisError("TypeError")
                                  ELSE Report(request.val.prompt, current_location, r.value))
                                EXCEPT !.args = request.val.call]
    /\ UNCHANGED <<predictor, current_prediction, current_knowledge, current_location,
                   knowledge_base, temp_file, request, last_ok, cli, md, net, calls>>

\* calls of the knowledge base's own methods
GetSnakeInfo(snake_name) ==
    /\ pc = "idle"
    /\ LET r == get_snake_info(knowledge_base, snake_name)
       IN  /\ knowledge_base' = r.kb
           /\ ret' = [Return("get_snake_info", "ok", r.ret) EXCEPT !.args = snake_name]
    /\ request' = NoneVal /\ posts' = 0 /\ chat' = NoChat
    /\ UNCHANGED <<predictor, current_prediction, current_knowledge, current_location,
                   temp_file, pc, last_ok, cli, md, net, calls>>

GetAllSnakes ==
    /\ pc = "idle"
    /\ LET r == get_all_snakes(knowledge_base)
       IN  /\ knowledge_base' = r.kb
           /\ ret' = Return("get_all_snakes", "ok", r.ret)
    /\ request' = NoneVal /\ posts' = 0 /\ chat' = NoChat
    /\ UNCHANGED <<predictor, current_prediction, current_knowledge, current_location,
                   temp_file, pc, last_ok, cli, md, net, calls>>

FormatSnakeInfo(snake_name) ==
    /\ pc = "idle"
    /\ LET r == format_snake_info(knowledge_base, snake_name)
       IN  /\ knowledge_base' = r.kb
           /\ ret' = [Return("format_snake_info", "ok", r.ret) EXCEPT !.args = snake_name]
    /\ request' = NoneVal /\ posts' = 0 /\ chat' = NoChat
    /\ UNCHANGED <<predictor, current_prediction, current_knowledge, current_location,
                   temp_file, pc, last_ok, cli, md, net, calls>>

SearchByKeyword(keyword) ==
    /\ pc = "idle"
    /\ LET r == search_by_keyword(knowledge_base, keyword)
       IN  /\ knowledge_base' = r.kb
           /\ ret' = [Return("search_by_keyword", "ok", r.ret) EXCEPT !.args = keyword]
    /\ request' = NoneVal /\ posts' = 0 /\ chat' = NoChat
    /\ UNCHANGED <<predictor, current_prediction, current_knowledge, current_location,
                   temp_file, pc, last_ok, cli, md, net, calls>>

\* ai_analyzer.get_user_location(location_input): app_2's ai_deep_analysis hands
\* it the text of the location box
GetUserLocation(location_text) ==
    /\ pc = "idle"
    /\ ret' = [Return("get_user_location", "ok", get_user_location(location_text))
                  EXCEPT !.args = location_text]
    /\ request' = NoneVal /\ posts' = 0 /\ chat' = NoChat
    /\ UNCHANGED <<predictor, current_prediction, current_knowledge, current_location,
                   knowledge_base, temp_file, pc, last_ok, cli, md, net, calls>>

\* what the location box can hold
LocationTexts ==
    {NoneVal, Some(<<>>), Some(<<" ", " ">>), Some(<<" ", "BeiJingShi", " ">>),
     Some(<<"ChaoYangQu">>)}

\* what the user types into the description box
Descriptions ==
    {NoneVal, Some(<<>>), Some(<<" ", NL>>), Some(<<" ", "h", "i", " ">>), Some(<<"?">>)}

-----------------------------------------------------------------------------
(* train.py: main.  The state_dict of the network is cut down to one entry   *)
(* of each kind: a convolution weight and the weight and bias of a           *)
(* BatchNorm2d layer (parameters), that layer's running statistics           *)
(* (buffers), and the weight and bias of the classifier.  Values are small   *)
(* integers.                                                                  *)

BackboneParameters == {"features.0.0.weight", "features.0.1.weight", "features.0.1.bias"}

BackboneBuffers ==
    {"features.0.1.running_mean", "features.0.1.running_var",
     "features.0.1.num_batches_tracked"}

\* the classifier of torchvision's MobileNetV2: Sequential(Dropout, Linear)
PretrainedClassifier == {"classifier.1.weight", "classifier.1.bias"}

\* model.classifier = nn.Linear(...)
NewClassifier == {"classifier.weight", "classifier.bias"}

\* a tensor that is a parameter: its value, requires_grad and .grad
Parameter(value, requires_grad, grad) ==
    [value |-> value, requires_grad |-> requires_grad, grad |-> grad]

\* models.mobilenet_v2(weights='IMAGENET1K_V1'): the values that are loaded
PretrainedValue(name) == IF name = "features.0.1.num_batches_tracked" THEN 0 ELSE 1

\* the largest absolute value a weight is followed to
MaxWeight == 2

\* the value is held inside the range that is followed
Clamp(x) == IF x > MaxWeight THEN MaxWeight ELSE IF x < -MaxWeight THEN -MaxWeight ELSE x

\* nn.Linear draws its initial weights at random
InitialWeights == {-1, 0, 1}

\* len(train_loader), and what one batch comes to inside the network: the
\* mean and variance a BatchNorm2d layer sees, and the sign of the gradient
NumBatches == 3

TrainBatches ==
    {[mean |-> 0, var |-> 0, grad |-> 1], [mean |-> 2, var |-> 2, grad |-> -1],
     [mean |-> 4, var |-> 0, grad |-> 1]}

\* num_epochs
MaxEpochs == 2

NetStart ==
    [line |-> "load", parameters |-> <<>>, buffers |-> <<>>, optimizer |-> {},
     training |-> TRUE, epoch |-> 0, batch_idx |-> 0, saved |-> NoneVal]

\* model = models.mobilenet_v2(weights='IMAGENET1K_V1')
LoadPretrained ==
    /\ net.line = "load"
    /\ net' = [net EXCEPT
                  !.line = "freeze",
                  !.parameters = [n \in BackboneParameters \cup PretrainedClassifier |->
                                     Parameter(PretrainedValue(n), TRUE, NoneVal)],
                  !.buffers = [n \in BackboneBuffers |-> PretrainedValue(n)],
                  !.training = TRUE]
    /\ UNCHANGED <<guiVars, cli, md, calls>>

\* for param in model.parameters(): param.requires_grad = False
RequiresGradFrozen(parameter) == FALSE

Freeze ==
    /\ net.line = "freeze"
    /\ net' = [net EXCEPT
                  !.line = "replace",
                  !.parameters = [n \in DOMAIN net.parameters |->
                                     [net.parameters[n] EXCEPT
                                         !.requires_grad =
                                             RequiresGradFrozen(net.parameters[n])]]]
    /\ UNCHANGED <<guiVars, cli, md, calls>>

\* model.classifier = nn.Linear(model.classifier[1].in_features, num_classes)
ReplaceClassifier(w) ==
    /\ net.line = "replace"
    /\ net' = [net EXCEPT
                  !.line = "optimizer",
                  !.parameters = [n \in BackboneParameters \cup NewClassifier |->
                                     IF n \in NewClassifier
                                     THEN Parameter(w, TRUE, NoneVal)
                                     ELSE net.parameters[n]]]
    /\ UNCHANGED <<guiVars, cli, md, calls>>

\* model.classifier.parameters()
ClassifierParameters(parameters) == {n \in DOMAIN parameters : n \in NewClassifier}

\* optimizer = optim.Adam(model.classifier.parameters(), lr=0.001)
BuildOptimizer ==
    /\ net.line = "optimizer"
    /\ net' = [net EXCEPT !.line = "train",
                          !.optimizer = ClassifierParameters(net.parameters)]
    /\ UNCHANGED <<guiVars, cli, md, calls>>

\* the forward pass of a BatchNorm2d layer: in training mode it moves its
\* running statistics towards those of the batch (momentum taken as 1/2) and
\* counts the batch; in evaluation mode it leaves them alone
BatchNormForward(buffers, training, batch) ==
    IF ~training THEN buffers
    ELSE [n \in DOMAIN buffers |->
             CASE n = "features.0.1.running_mean" -> (buffers[n] + batch.mean) \div 2
               [] n = "features.0.1.running_var"  -> (buffers[n] + batch.var) \div 2
               [] OTHER -> buffers[n] + 1]

\* loss.backward(): a gradient for every parameter that requires one
Backward(parameters, batch) ==
    [n \in DOMAIN parameters |->
        IF parameters[n].requires_grad
        THEN [parameters[n] EXCEPT !.grad = Some(batch.grad)]
        ELSE parameters[n]]

\* optimizer.step(): every parameter of the optimizer that has a gradient moves
Step(parameters, optimizer) ==
    [n \in DOMAIN parameters |->
        IF n \in optimizer /\ parameters[n].grad # NoneVal
        THEN [parameters[n] EXCEPT !.value = Clamp(@ - parameters[n].grad.val)]
        ELSE parameters[n]]

\* optimizer.zero_grad()
ZeroGrad(parameters, optimizer) ==
    [n \in DOMAIN parameters |->
        IF n \in optimizer THEN [parameters[n] EXCEPT !.grad = NoneVal]
        ELSE parameters[n]]

\* one pass of the loop over train_loader, after model.train()
TrainBatch(batch) ==
    /\ net.line = "train"
    /\ net.batch_idx < NumBatches
    /\ net' = [net EXCEPT
                  !.training = TRUE,
                  !.buffers = BatchNormForward(net.buffers, TRUE, batch),
                  !.parameters = Step(Backward(ZeroGrad(net.parameters, net.optimizer),
                                               batch),
                                      net.optimizer),
                  !.batch_idx = @ + 1]
    /\ UNCHANGED <<guiVars, cli, md, calls>>

\* model.eval() and the loop over validation_loader under torch.no_grad(); the
\* epoch ends
Validate(batch) ==
    /\ net.line = "train"
    /\ net.batch_idx = NumBatches
    /\ net' = [net EXCEPT
                  !.training = FALSE,
                  !.buffers = BatchNormForward(net.buffers, FALSE, batch),
                  !.epoch = @ + 1,
                  !.batch_idx = 0,
                  !.line = IF net.epoch + 1 = MaxEpochs THEN "save" ELSE "train"]
    /\ UNCHANGED <<guiVars, cli, md, calls>>

\* model.state_dict(): the values of the parameters and of the buffers
StateDict(n) ==
    [parameters |-> [p \in DOMAIN n.parameters |-> n.parameters[p].value],
     buffers |-> n.buffers]

\* torch.save(model.state_dict(), model_save_path)
Save ==
    /\ net.line = "save"
    /\ net' = [net EXCEPT !.line = "done", !.saved = Some(StateDict(net))]
    /\ UNCHANGED <<guiVars, cli, md, calls>>

-----------------------------------------------------------------------------
(* app_4.py under the GUI framework's event dispatch: the handlers are plain *)
(* functions run on worker threads, so two calls can be in progress at once  *)
(* and a thread switch can fall between any two statements.  calls[t] holds  *)
(* the call that thread t runs: its handler, the line it stands at, its      *)
(* arguments and local variables, and what it returns.                       *)

Threads == {1, 2}

IdleCall ==
    [handler |-> "none", line |-> "idle", image |-> NoneVal, description |-> NoneVal,
     result |-> NoneVal, exists |-> FALSE, snake_species |-> NoneVal,
     confidence |-> NoneVal, snake_knowledge |-> NoneVal, location_info |-> NoneVal,
     ret |-> NoneVal]

\* a thread is free to take the next event
Free(t) == calls[t].line \in {"idle", "returned"}

\* two pictures of different species whose best confidences differ
PictureA == PictureOf(1)

PictureB == [readable |-> TRUE, logits |-> [i \in 1..NumClasses |-> Max({0, i - 2})]]

ConcUploads == {NoneVal, Upload(TRUE, PictureA), Upload(TRUE, PictureB)}

ConcDescriptions == {Some(<<>>), Some(<<"?">>)}

ConcResponses ==
    {Response("raises", "ConnectionError", 0, NoneVal),
     Response("content", "none", HttpOk, Some(<<"a">>))}

\* the call moves to the except clause or to a failing return: the outputs
\* are fixed, the two globals are still to be cleared
Failing(call, path, out) ==
    [call EXCEPT !.line = "clear_prediction", !.ret = Some(Return("predict_snake", path, out))]

\* image_input.change: predict_snake(image), lines 342-368 up to the first
\* assignment
PsCall(t, image) ==
    /\ Free(t)
    /\ LET call == [IdleCall EXCEPT !.handler = "predict_snake", !.image = image]
       IN  calls' = [calls EXCEPT ![t] =
                        IF predictor = NoneVal
                        THEN Failing(call, "model_not_loaded", ModelNotLoaded)
                        ELSE IF image = NoneVal
                        THEN Failing(call, "no_image", NoImage)
                        ELSE [call EXCEPT !.line = "save"]]
    /\ UNCHANGED <<guiVars, cli, md, net>>

\* line 374: image.save(temp_path)
PsSave(t) ==
    /\ calls[t].handler = "predict_snake" /\ calls[t].line = "save"
    /\ IF calls[t].image.val.saveable
       THEN /\ temp_file' = Some(calls[t].image.val.file)
            /\ calls' = [calls EXCEPT ![t].line = "predict"]
       ELSE /\ calls' = [calls EXCEPT ![t] =
                            Failing(@, "exception",
                                ErrorOutputs(<<"processing error: ",
                                               "cannot write mode RGBA as JPEG">>))]
            /\ UNCHANGED temp_file
    /\ UNCHANGED <<predictor, current_prediction, current_knowledge, current_location,
                   knowledge_base, pc, request, posts, chat, ret, last_ok, cli, md, net>>

\* line 377: predictor.predict_image(temp_path, top_k=5) opens whatever stands
\* at the path now; a missing file ends in predict_image's except clause
PsPredict(t) ==
    /\ calls[t].handler = "predict_snake" /\ calls[t].line = "predict"
    /\ \E result \in predict_image(predictor.val, TempPath,
                                   IF temp_file = NoneVal THEN Unreadable ELSE temp_file.val,
                                   GuiTopK) :
           calls' = [calls EXCEPT ![t].result = Some(result), ![t].line = "exists"]
    /\ UNCHANGED <<guiVars, cli, md, net>>

\* lines 383-392: where the call goes once the file is dealt with
AfterRemove(call) ==
    IF "error" \in DOMAIN call.result.val
    THEN Failing(call, "predictor_error",
                 ErrorOutputs(<<"prediction failed: ", call.result.val.error>>))
    ELSE [call EXCEPT !.line = "set_prediction"]

\* line 380: os.path.exists(temp_path)
PsExists(t) ==
    /\ calls[t].handler = "predict_snake" /\ calls[t].line = "exists"
    /\ calls' = [calls EXCEPT ![t] =
                    IF temp_file # NoneVal
                    THEN [@ EXCEPT !.exists = TRUE, !.line = "remove"]
                    ELSE AfterRemove(@)]
    /\ UNCHANGED <<guiVars, cli, md, net>>

\* line 381: os.remove(temp_path) raises FileNotFoundError if the file went
\* since the test
PsRemove(t) ==
    /\ calls[t].handler = "predict_snake" /\ calls[t].line = "remove"
    /\ IF temp_file = NoneVal
       THEN /\ calls' = [calls EXCEPT ![t] =
                            Failing(@, "exception",
                                ErrorOutputs(<<"processing error: ",
                                               "No such file or directory">>))]
            /\ UNCHANGED temp_file
       ELSE /\ temp_file' = NoneVal
            /\ calls' = [calls EXCEPT ![t] = AfterRemove(@)]
    /\ UNCHANGED <<predictor, current_prediction, current_knowledge, current_location,
                   knowledge_base, pc, request, posts, chat, ret, last_ok, cli, md, net>>

\* line 392: current_prediction = best_pred
PsSetPrediction(t) ==
    /\ calls[t].handler = "predict_snake" /\ calls[t].line = "set_prediction"
    /\ current_prediction' =
           PredictSuccess(knowledge_base, calls[t].result.val).current_prediction
    /\ calls' = [calls EXCEPT ![t].line = "set_knowledge"]
    /\ UNCHANGED <<predictor, current_knowledge, current_location, knowledge_base,
                   temp_file, pc, request, posts, chat, ret, last_ok, cli, md, net>>

\* lines 399-441: current_knowledge = snake_knowledge_info, and the return
PsSetKnowledge(t) ==
    /\ calls[t].handler = "predict_snake" /\ calls[t].line = "set_knowledge"
    /\ LET done == PredictSuccess(knowledge_base, calls[t].result.val)
       IN  /\ current_knowledge' = done.current_knowledge
           /\ knowledge_base' = done.kb
           /\ calls' = [calls EXCEPT
                           ![t].line = "returned",
                           ![t].ret = Some(Return("predict_snake", "success", done.out))]
    /\ UNCHANGED <<predictor, current_prediction, current_location, temp_file, pc,
                   request, posts, chat, ret, last_ok, cli, md, net>>

\* current_prediction = None, on each path that does not succeed
PsClearPrediction(t) ==
    /\ calls[t].handler = "predict_snake" /\ calls[t].line = "clear_prediction"
    /\ current_prediction' = ClearedOnFailure(current_prediction)
    /\ calls' = [calls EXCEPT ![t].line = "clear_knowledge"]
    /\ UNCHANGED <<predictor, current_knowledge, current_location, knowledge_base,
                   temp_file, pc, request, posts, chat, ret, last_ok, cli, md, net>>

\* current_knowledge = None, and the return of the error outputs
PsClearKnowledge(t) ==
    /\ calls[t].handler = "predict_snake" /\ calls[t].line = "clear_knowledge"
    /\ current_knowledge' = ClearedOnFailure(current_knowledge)
    /\ calls' = [calls EXCEPT ![t].line = "returned"]
    /\ UNCHANGED <<predictor, current_prediction, current_location, knowledge_base,
                   temp_file, pc, request, posts, chat, ret, last_ok, cli, md, net>>

\* the call returns a text
Returned(call, path, out) ==
    [call EXCEPT !.line = "returned",
                 !.ret = Some([Return("ai_deep_analysis", path, out)
                                  EXCEPT !.args = call.description])]

\* the call's except clause, lines 322-340
Caught(call, e) == Returned(call, "exception", AnalysisError(e))

\* analyze_button.click: ai_deep_analysis(user_description), lines 250-282
AiCall(t, user_description) ==
    /\ Free(t)
    /\ LET call == [IdleCall EXCEPT !.handler = "ai_deep_analysis",
                                    !.description = user_description]
       IN  calls' = [calls EXCEPT ![t] =
                        IF current_prediction = NoneVal
                        THEN Returned(call, "no_prediction", NoPredictionGuidance)
                        ELSE IF Blank(user_description)
                        THEN Returned(call, "no_description", InsufficientDescription)
                        ELSE [call EXCEPT !.line = "snake_species"]]
    /\ UNCHANGED <<guiVars, cli, md, net>>

\* lines 284-286: location_info = ...; snake_species = current_prediction['class']
\* (subscripting None raises TypeError, inside the try)
AiReadSpecies(t) ==
    /\ calls[t].handler = "ai_deep_analysis" /\ calls[t].line = "snake_species"
    /\ calls' = [calls EXCEPT ![t] =
                    IF current_prediction = NoneVal THEN Caught(@, "TypeError")
                    ELSE [@ EXCEPT
                             !.location_info =
                                 Some(get_user_location(Some(current_location.address))),
                             !.snake_species = Some(current_prediction.val.class),
                             !.line = "confidence"]]
    /\ UNCHANGED <<guiVars, cli, md, net>>

\* line 287: confidence = current_prediction['confidence']
AiReadConfidence(t) ==
    /\ calls[t].handler = "ai_deep_analysis" /\ calls[t].line = "confidence"
    /\ calls' = [calls EXCEPT ![t] =
                    IF current_prediction = NoneVal THEN Caught(@, "TypeError")
                    ELSE [@ EXCEPT !.confidence = Some(current_prediction.val.confidence),
                                   !.line = "snake_knowledge"]]
    /\ UNCHANGED <<guiVars, cli, md, net>>

\* line 289: snake_knowledge = current_knowledge or <the default text>
AiReadKnowledge(t) ==
    /\ calls[t].handler = "ai_deep_analysis" /\ calls[t].line = "snake_knowledge"
    /\ calls' = [calls EXCEPT
                    ![t].snake_knowledge =
                        Some(IF Truthy(current_knowledge) THEN current_knowledge.val
                             ELSE <<"ZanWu", "XiangXiZhiShi">>),
                    ![t].line = "analyze"]
    /\ UNCHANGED <<guiVars, cli, md, net>>

\* lines 293-320: analyze_snake_encounter posts the prompt; the report, or the
\* except clause
AiAnalyze(t, response) ==
    /\ calls[t].handler = "ai_deep_analysis" /\ calls[t].line = "analyze"
    /\ LET call   == calls[t]
           prompt == Prompt(call.snake_species.val, call.confidence.val,
                            call.description.val, call.location_info.val,
                            call.snake_knowledge.val)
           r      == deepseek_chat(response)
       IN  /\ request' = Some([call |-> call.description, prompt |-> prompt,
                               server |-> "answers"])
           /\ calls' = [calls EXCEPT ![t] =
                           IF r.raised THEN Caught(call, response.exc)
                           ELSE IF MapRaises(current_location.lat, current_location.lon)
                           THEN Caught(call, "TypeError")
                           ELSE Returned(call, "report",
                                         Report(prompt, current_location, r.value))]
    /\ UNCHANGED <<predictor, current_prediction, current_knowledge, current_location,
                   knowledge_base, temp_file, pc, posts, chat, ret, last_ok, cli, md, net>>

\* no handler call is running
NoCalls == <<>>

-----------------------------------------------------------------------------
(* The application: the state after the modules are imported and            *)
(* create_interface has run, then GUI events handled one at a time.         *)

\* the GUI applications
Apps == {"app_2", "app_3", "app_4", "app_4_en"}

\* initialize_model of app_4_en: the class names it hands to SnakePredictor
EnglishAppClasses ==
    <<"Northern Water Snake", "Common Garter Snake", "DeKay's Brownsnake",
      "Black Rat Snake", "Western Diamondback Rattlesnake">>

\* snake_knowledge_en.py: the keys of SnakeKnowledge.knowledge_base
EnglishKnowledgeKeys ==
    {"Northern Water Snake", "Common Garter Snake", "DeKay's Brownsnake",
     "Black Rat Snake", "Western Diamondback Rattlesnake"}

\* initialize_model: class_names=chinese_classes
AppClasses(app) == IF app = "app_4_en" THEN EnglishAppClasses ELSE ChineseClasses

\* the keys of the knowledge base of the module the application imports
AppKnowledgeKeys(app) ==
    IF app = "app_4_en" THEN EnglishKnowledgeKeys ELSE DOMAIN SnakeKnowledgeInit

\* a predictor built without class_names: predict.py's default, the english
\* names of snake_config
DefaultClasses == EnglishClasses

\* initialize_model of the application that is run (app_4)
LoadedClasses == AppClasses("app_4")

GuiInit(loaded, location) ==
    /\ predictor = (IF loaded THEN Some(LoadedClasses) ELSE NoneVal)
    /\ current_prediction = NoneVal
    /\ current_knowledge = NoneVal
    /\ current_location = location
    /\ knowledge_base = SnakeKnowledgeInit
    /\ temp_file = NoneVal
    /\ pc = "idle"
    /\ request = NoneVal
    /\ posts = 0
    /\ chat = NoChat
    /\ ret = Return("none", "none", <<>>)
    /\ last_ok = NoneVal

Init ==
    /\ \E loaded \in BOOLEAN, answer \in IpAnswers :
           GuiInit(loaded, get_location_from_ip(answer))
    /\ cli = CliIdle
    /\ md = MdIdle
    /\ net = NetStart
    /\ calls = NoCalls

Next ==
    \/ \E image \in Uploads : PredictSnake(image)
    \/ \E lat_input \in LatInputs, lon_input \in LonInputs :
           UpdateLocationManually(lat_input, lon_input)
    \/ \E user_description \in Descriptions : AiDeepAnalysis(user_description)
    \/ \E response \in Responses : AiReturn(response)
    \/ \E snake_name \in KbQueries : GetSnakeInfo(snake_name)
    \/ GetAllSnakes
    \/ \E snake_name \in KbQueries : FormatSnakeInfo(snake_name)
    \/ \E keyword \in Keywords : SearchByKeyword(keyword)
    \/ \E location_text \in LocationTexts : GetUserLocation(location_text)

Spec == Init /\ [][Next]_vars

\* The application with its progress: a POST that the server answers, or
\* whose connection fails, comes back, and the handler runs on to its return.
SpecLive == Spec /\ WF_vars(\E response \in Responses : AiReturn(response))

(* predict.py run from the command line *)

InitPredict ==
    /\ GuiInit(FALSE, DefaultLocation)
    /\ cli = CliIdle
    /\ md = MdIdle
    /\ net = NetStart
    /\ calls = NoCalls

NextPredict ==
    \/ \E file \in Files, top_k \in TopKs : PredictImage(file, top_k)
    \/ \E images \in Batches, top_k \in BatchTopKs : PredictBatch(images, top_k)
    \/ CliReset

SpecPredict == InitPredict /\ [][NextPredict]_vars

(* clean_markdown_output on the samples of test_analyzer and on short texts *)

InitClean ==
    /\ GuiInit(FALSE, DefaultLocation)
    /\ cli = CliIdle
    /\ md = MdIdle
    /\ net = NetStart
    /\ calls = NoCalls

NextClean ==
    \/ \E text \in MdInputs : Clean(text)
    \/ CleanAgain
    \/ CleanReset

SpecClean == InitClean /\ [][NextClean]_vars

(* train.py run from the command line *)

InitTrain ==
    /\ GuiInit(FALSE, DefaultLocation)
    /\ cli = CliIdle
    /\ md = MdIdle
    /\ net = NetStart
    /\ calls = NoCalls

NextTrain ==
    \/ LoadPretrained
    \/ Freeze
    \/ \E w \in InitialWeights : ReplaceClassifier(w)
    \/ BuildOptimizer
    \/ \E batch \in TrainBatches : TrainBatch(batch)
    \/ \E batch \in TrainBatches : Validate(batch)
    \/ Save

SpecTrain == InitTrain /\ [][NextTrain]_vars

(* app_4.py with two handler calls in progress at once *)

InitConc ==
    /\ GuiInit(TRUE, DefaultLocation)
    /\ cli = CliIdle
    /\ md = MdIdle
    /\ net = NetStart
    /\ calls = [t \in Threads |-> IdleCall]

NextConc ==
    \E t \in Threads :
        \/ \E image \in ConcUploads : PsCall(t, image)
        \/ PsSave(t)
        \/ PsPredict(t)
        \/ PsExists(t)
        \/ PsRemove(t)
        \/ PsSetPrediction(t)
        \/ PsSetKnowledge(t)
        \/ PsClearPrediction(t)
        \/ PsClearKnowledge(t)
        \/ \E user_description \in ConcDescriptions : AiCall(t, user_description)
        \/ AiReadSpecies(t)
        \/ AiReadConfidence(t)
        \/ AiReadKnowledge(t)
        \/ \E response \in ConcResponses : AiAnalyze(t, response)

SpecConc == InitConc /\ [][NextConc]_vars

-----------------------------------------------------------------------------
(* Properties *)

\* a description that is None, empty or made of whitespace only
WhitespaceOnly(d) == d = NoneVal \/ \A i \in 1..Len(d.val) : IsSpace(d.val[i])

\* C1: ai_deep_analysis posts to the chat API only when a prediction is cached
\* and the description is not blank after stripping; with no prediction cached
\* it returns the "cannot analyse" guidance, otherwise with a blank description
\* the "insufficient description" guidance, and then no request is made.
C1_RequestOnlyWhenReady ==
    /\ posts > 0 =>
          /\ current_prediction # NoneVal
          /\ request # NoneVal
          /\ ~WhitespaceOnly(request.val.call)
    /\ (ret.handler = "ai_deep_analysis" /\ pc = "idle" /\ current_prediction = NoneVal) =>
          /\ ret.out = NoPredictionGuidance
          /\ posts = 0 /\ request = NoneVal
    /\ (/\ ret.handler = "ai_deep_analysis" /\ pc = "idle"
        /\ current_prediction # NoneVal /\ WhitespaceOnly(ret.args)) =>
          /\ ret.out = InsufficientDescription
          /\ posts = 0 /\ request = NoneVal

\* a whitespace-only description was refused although a prediction is cached
C1_Witness ==
    /\ ret.handler = "ai_deep_analysis" /\ ret.path = "no_description"
    /\ ret.args = Some(<<" ", NL>>)
    /\ current_prediction # NoneVal
    /\ posts = 0

\* C2: the species, confidence and knowledge text passed to
\* analyze_snake_encounter are those of the most recent predict_snake call that
\* succeeded, and the description is the one given to this ai_deep_analysis call.
C2_ArgsAreLatestPrediction ==
    request # NoneVal =>
        /\ last_ok # NoneVal
        /\ request.val.prompt.snake_species = last_ok.val.class
        /\ request.val.prompt.confidence = last_ok.val.confidence
        /\ request.val.prompt.snake_knowledge = last_ok.val.knowledge
        /\ request.val.prompt.user_description = request.val.call.val

\* a request about the rattlesnake is waiting for its response
C2_Witness ==
    /\ pc = "awaiting"
    /\ request.val.prompt.snake_species = ChineseClasses[NumClasses]
    /\ Contains(request.val.prompt.snake_knowledge, "JuDu")
    /\ request.val.prompt.user_description = <<"?">>

\* C3: deepseek_chat never raises, and for every failure of the request it
\* returns a string that begins with the error glyph.
C3_ChatFailuresReturnGlyph ==
    chat.response # NoneVal =>
        /\ ~chat.raised
        /\ Failed(chat.response.val) =>
              /\ chat.value # NoneVal
              /\ chat.value.val # <<>>
              /\ Head(chat.value.val) = ErrGlyph

\* response.json() raised json.JSONDecodeError and the call returned
C3_Witness ==
    /\ chat.response # NoneVal
    /\ chat.response.val.kind = "badjson"
    /\ chat.response.val.exc = "JSONDecodeError"
    /\ chat.value # NoneVal
    /\ Head(chat.value.val) = ErrGlyph

PredictSnakeFailures == {"model_not_loaded", "predictor_error", "exception"}

\* C4: every failure path of predict_snake (model not loaded, an error result
\* of the predictor, an exception while saving or processing the image) returns
\* text that begins with the error glyph.
C4_FailureTextHasGlyph ==
    (ret.handler = "predict_snake" /\ ret.path \in PredictSnakeFailures) =>
        /\ ret.out[1] # NoneVal
        /\ Head(ret.out[1].val) = ErrGlyph

\* C4, the path on which the code does so: the model is not loaded
C4_ModelNotLoadedHasGlyph ==
    (ret.handler = "predict_snake" /\ ret.path = "model_not_loaded") =>
        Head(ret.out[1].val) = ErrGlyph

\* predict_snake returned on its except clause
C4_Witness == ret.handler = "predict_snake" /\ ret.path = "exception"

\* C5: predict_image never raises; a failure yields a dict with image_path and
\* error and no top_prediction, a success one with image_path, top_prediction
\* and all_predictions and no error.
C5_ResultShape ==
    cli.call # NoneVal =>
        /\ cli.result # NoneVal
        /\ \/ DOMAIN cli.result.val = {"image_path", "error"}
           \/ DOMAIN cli.result.val = {"image_path", "top_prediction", "all_predictions"}
        /\ ~cli.call.val.file.readable => "error" \in DOMAIN cli.result.val

\* an unreadable file gave an error result
C5_Witness ==
    /\ cli.call # NoneVal
    /\ ~cli.call.val.file.readable
    /\ cli.result.val = [image_path |-> "img.jpg", error |-> "cannot identify image file"]

\* the index of a class name in class_names
ClassIndex(class_names, c) == CHOOSE i \in 1..Len(class_names) : class_names[i] = c

\* digits, a point, two digits and a percent sign
IsPercent(c) ==
    /\ Len(c) >= 5
    /\ c[Len(c)] = "%"
    /\ c[Len(c) - 3] = "."
    /\ \A i \in (1..(Len(c) - 4)) \cup {Len(c) - 2, Len(c) - 1} :
           \E d \in 1..Len(DigitChars) : c[i] = DigitChars[d]

\* all_predictions are the k labels of largest probability under probs
TopKLabels(r, k, probs) ==
    /\ DOMAIN r = {"image_path", "top_prediction", "all_predictions"}
    /\ Len(r.all_predictions) = k
    /\ \A a \in 1..k :
          /\ \E i \in 1..NumClasses : r.all_predictions[a].class = EnglishClasses[i]
          /\ IsPercent(r.all_predictions[a].confidence)
    /\ \A a, b \in 1..k :
          a # b => r.all_predictions[a].class # r.all_predictions[b].class
    /\ \A a \in 1..(k - 1) :
          FracGeq(probs[ClassIndex(EnglishClasses, r.all_predictions[a].class)],
                  probs[ClassIndex(EnglishClasses, r.all_predictions[a + 1].class)])
    /\ r.top_prediction = r.all_predictions[1]

\* C6: for a readable image and 1 <= top_k <= number of classes, all_predictions
\* has exactly top_k entries of pairwise distinct classes of class_names, in
\* non-increasing order of probability, each with a percentage string, and
\* top_prediction is its first entry.
C6_TopKLabels ==
    (/\ cli.call # NoneVal
     /\ cli.call.val.file.readable
     /\ 1 <= cli.call.val.top_k /\ cli.call.val.top_k <= NumClasses) =>
        TopKLabels(cli.result.val, cli.call.val.top_k, cli.probs.val[1])

\* C6 from top_k = 2 on, where the code does return the top-k labels
C6_TopKLabelsFromTwo ==
    (/\ cli.call # NoneVal
     /\ cli.call.val.file.readable
     /\ 2 <= cli.call.val.top_k /\ cli.call.val.top_k <= NumClasses) =>
        TopKLabels(cli.result.val, cli.call.val.top_k, cli.probs.val[1])

\* a readable image was classified with top_k = 1
C6_Witness ==
    /\ cli.call # NoneVal
    /\ cli.call.val.file.readable
    /\ cli.call.val.top_k = 1

\* the characters Markdown marks headings, bold, italics, code and links with
Markers == {"#", "*", Backquote, "[", "]", "(", ")"}

Samples == {Some(test_text), Some(test_text_en)}

\* C7: on the sample of test_analyzer the cleaner returns a text without
\* heading, bold, italic, code or link markers, and cleaning that text again
\* returns it unchanged.
C7_SampleCleanedAndStable ==
    (md.phase # "idle" /\ md.input \in Samples) =>
        /\ md.cleaned # NoneVal
        /\ \A i \in 1..Len(md.cleaned.val) : md.cleaned.val[i] \notin Markers
        /\ md.phase = "again" => md.again = md.cleaned

\* the sample of ai_analyzer.py was cleaned twice
C7_Witness ==
    /\ md.phase = "again"
    /\ md.input = Some(test_text)
    /\ md.cleaned =
          Some(<<"z", "s", "b", "t", NL, NL, "z", "s", "c", "i", "n", "r", NL, NL,
                 "z", "s", "x", "i", NL, NL, "d", "m", "n", "r", NL, NL, "l", "j">>)

\* C8: one ai_deep_analysis call posts at most once, and once the response of
\* the POST is in, failed or not, the call has returned without posting again.
C8_NoRetry ==
    /\ posts <= 1
    /\ chat.response # NoneVal => (pc = "idle" /\ posts = 1)

\* a POST came back with status 500 and the call returned
C8_Witness ==
    /\ chat.response # NoneVal
    /\ chat.response.val.kind = "status"
    /\ pc = "idle"
    /\ posts = 1
    /\ ret.handler = "ai_deep_analysis"

RECURSIVE GCD(_, _)
GCD(a, b) == IF b = 0 THEN a ELSE GCD(b, a % b)

\* the fraction in lowest terms
Reduce(a) ==
    LET g == GCD(a.num, a.den) IN [num |-> a.num \div g, den |-> a.den \div g]

\* a + b, over the least common denominator
FracAdd(a, b) ==
    LET l == (a.den \div GCD(a.den, b.den)) * b.den
    IN  Reduce([num |-> a.num * (l \div a.den) + b.num * (l \div b.den), den |-> l])

RECURSIVE FracSum(_)
FracSum(q) ==
    IF q = <<>> THEN [num |-> 0, den |-> 1] ELSE FracAdd(Head(q), FracSum(Tail(q)))

\* C9: the probabilities predict_image computes over the class list are
\* non-negative and sum to 1.
C9_ProbabilitiesSumToOne ==
    cli.probs # NoneVal =>
        /\ Len(cli.probs.val[1]) = NumClasses
        /\ \A j \in 1..NumClasses :
              cli.probs.val[1][j].num >= 0 /\ cli.probs.val[1][j].den > 0
        /\ FracSum(cli.probs.val[1]) = [num |-> 1, den |-> 1]

\* probabilities were computed for logits that are not all equal
C9_Witness ==
    /\ cli.probs # NoneVal
    /\ cli.call.val.file.logits[1] # cli.call.val.file.logits[2]
    /\ cli.probs.val[1][1] # cli.probs.val[1][2]

\* C10: no sequence of knowledge base, predict_snake, update_location_manually
\* and ai_deep_analysis calls adds, removes or changes an entry of the
\* knowledge base built at startup.
C10_KnowledgeBaseReadOnly == knowledge_base = SnakeKnowledgeInit

\* a name the knowledge base does not hold was looked up
C10_Witness ==
    /\ ret.handler = "get_snake_info"
    /\ ret.args = "Unknown snake"
    /\ ret.out = NoneVal
    /\ knowledge_base = SnakeKnowledgeInit

\* C11: a predict_snake call that does not succeed leaves current_prediction
\* and current_knowledge at None; while no prediction is cached every
\* ai_deep_analysis call is refused with the "upload an image first" guidance
\* and posts nothing, and only a predict_snake call that succeeds caches one.
C11_FailedUploadClearsCache ==
    /\ [](ret.handler = "predict_snake" /\ ret.path # "success" =>
             current_prediction = NoneVal /\ current_knowledge = NoneVal)
    /\ [][/\ (current_prediction = NoneVal /\ ret'.handler = "ai_deep_analysis") =>
                 /\ ret'.path = "no_prediction"
                 /\ ret'.out = NoPredictionGuidance
                 /\ posts' = 0 /\ request' = NoneVal /\ pc' = "idle"
          /\ (current_prediction = NoneVal /\ current_prediction' # NoneVal) =>
                 ret'.handler = "predict_snake" /\ ret'.path = "success"]_vars

\* after a successful upload and then a failed one, an analysis with a
\* description was refused
C11_Witness ==
    /\ last_ok # NoneVal
    /\ current_prediction = NoneVal
    /\ ret.handler = "ai_deep_analysis"
    /\ ret.path = "no_prediction"
    /\ ret.args = Some(<<"?">>)

\* the POST of the last ai_deep_analysis call failed and the call has returned
ChatFailedAndReturned ==
    /\ ret.handler = "ai_deep_analysis" /\ pc = "idle"
    /\ chat.response # NoneVal
    /\ Failed(chat.response.val)

\* C12: when the chat API request fails, ai_deep_analysis returns a message
\* that begins with the error glyph and is not the AI deep analysis report.
C12_ChatFailureShownAsError ==
    ChatFailedAndReturned =>
        /\ Head(ret.out) = ErrGlyph
        /\ ~Contains(ret.out, "AI deep analysis report")

\* C12, what the code does instead: with a location that has coordinates, the
\* failure text of deepseek_chat stands inside the report
C12_FailureInsideReport ==
    (ChatFailedAndReturned /\ ~MapRaises(current_location.lat, current_location.lon)) =>
        /\ Head(ret.out) = RobotGlyph
        /\ Contains(ret.out, "AI deep analysis report")
        /\ Contains(ret.out, ErrGlyph)

\* the POST was answered with status 500 and the report was returned
C12_Witness ==
    /\ ChatFailedAndReturned
    /\ chat.response.val.kind = "status"
    /\ ret.path = "report"

\* an input that is a number in [-max, max]
NumberIn(x, max) == x.tag = "Some" /\ -max <= x.val /\ x.val <= max

\* update_location_manually stored the coordinates it was called with and
\* returned the status that names them
StoredAsGiven ==
    /\ ~ret.raised /\ ret.path = "updated"
    /\ current_location.lat = ret.args[1]
    /\ current_location.lon = ret.args[2]
    /\ current_location.address =
          <<"JingDu: ">> \o Format4(ret.args[2].val) \o <<", ", "WeiDu: ">>
          \o Format4(ret.args[1].val)
    /\ ret.out[2] =
          <<OkGlyph, " ", "location updated: ", "WeiDu ">> \o Format4(ret.args[1].val)
          \o <<", ", "JingDu ">> \o Format4(ret.args[2].val)

\* C13: for every latitude in [-90, 90] and longitude in [-180, 180], 0
\* included, update_location_manually sets lat and lon to exactly those values,
\* the address to the coordinate text built from them, and returns the
\* "location updated" status naming the same coordinates.
C13_ValidCoordinatesStored ==
    (/\ ret.handler = "update_location_manually"
     /\ NumberIn(ret.args[1], MaxLat) /\ NumberIn(ret.args[2], MaxLon)) =>
        StoredAsGiven

\* C13 for coordinates other than 0, where the code does store what it is given
C13_NonZeroCoordinatesStored ==
    (/\ ret.handler = "update_location_manually"
     /\ NumberIn(ret.args[1], MaxLat) /\ NumberIn(ret.args[2], MaxLon)
     /\ ret.args[1].val # 0 /\ ret.args[2].val # 0) =>
        StoredAsGiven

\* the handler was called with latitude 0 and a valid longitude while the
\* current latitude was another
C13_Witness ==
    /\ ret.handler = "update_location_manually"
    /\ ret.args = <<Some(0), Some(-MaxLon)>>
    /\ current_location.lat # Some(0)

\* an input that is a number outside [-max, max]
OutOf(x, max) == x.tag = "Some" /\ (x.val < -max \/ x.val > max)

\* a latitude or longitude out of range, or one that float() cannot convert
BadInput(args) ==
    \/ OutOf(args[1], MaxLat) \/ OutOf(args[2], MaxLon)
    \/ args[1] = Text \/ args[2] = Text

\* the step is a call that leaves current_location alone and returns an error
\* status with a map drawn at the location before the call
RejectedAtPrevious ==
    /\ current_location' = current_location
    /\ ~ret'.raised
    /\ Head(ret'.out[2]) = ErrGlyph
    /\ ret'.out[1] = Figure(current_location.lat, current_location.lon)

\* C14: update_location_manually called with a coordinate out of range or with
\* a value that is no number leaves lat, lon and address unchanged and returns
\* an error status beginning with the error glyph and a map at the previous
\* location.
C14_BadInputRejected ==
    [][(ret'.handler = "update_location_manually" /\ BadInput(ret'.args)) =>
           RejectedAtPrevious]_vars

\* C14 when the location before the call has coordinates
C14_BadInputRejectedAtCoordinates ==
    [][(/\ ret'.handler = "update_location_manually" /\ BadInput(ret'.args)
        /\ ~MapRaises(current_location.lat, current_location.lon)) =>
           RejectedAtPrevious]_vars

\* a latitude out of range was given while the location had no coordinates,
\* and the handler raised
C14_Witness ==
    /\ ret.handler = "update_location_manually"
    /\ ret.args[1] = Some(MaxLat + 1)
    /\ ret.raised
    /\ current_location.lat = NoneVal

\* lat is a number in [-90, 90] and lon a number in [-180, 180]
ValidCoordinates(loc) == NumberIn(loc.lat, MaxLat) /\ NumberIn(loc.lon, MaxLon)

\* C15: in every reachable state, from the initialisation by the IP lookup on
\* and after any update_location_manually calls, current_location's lat is a
\* number in [-90, 90] and its lon a number in [-180, 180].
C15_LocationInRange == ValidCoordinates(current_location)

\* C15, the part the handlers do keep: no step leads from valid coordinates to
\* others
C15_HandlersKeepRange ==
    [][ValidCoordinates(current_location) => ValidCoordinates(current_location')]_vars

\* the interface runs on a location the IP lookup returned without coordinates
C15_Witness ==
    /\ current_location.lat = NoneVal
    /\ current_location.address = <<"WeiZhiJianCeChengGong">>
    /\ ret.handler = "update_location_manually"

\* C16: for every input, clean_markdown_output returns no text with three or
\* more consecutive newlines.
C16_NoThreeNewlines ==
    (md.phase # "idle" /\ md.cleaned # NoneVal) =>
        ~\E i \in 1..Len(md.cleaned.val) : IsRun(md.cleaned.val, i, NL, 3)

\* a text whose blank lines hold a space was cleaned
C16_Witness ==
    /\ md.phase = "cleaned"
    /\ md.input = Some(<<"a", NL, " ", NL, NL, "b">>)
    /\ md.cleaned = Some(<<"a", NL, NL, NL, "b">>)

\* C17: for every input, cleaning the cleaner's output returns it unchanged.
C17_Idempotent == md.phase = "again" => md.again = md.cleaned

\* an indented heading was cleaned twice
C17_Witness ==
    /\ md.phase = "again"
    /\ md.input = Some(<<" ", "#">>)
    /\ md.cleaned = Some(<<"#">>)
    /\ md.again = Some(<<>>)

C19_OneResultPerImage ==
    cli.batch # NoneVal =>
        /\ Len(cli.results.val) = Len(cli.batch.val.images)
        /\ \A i \in 1..Len(cli.batch.val.images) :
              /\ cli.results.val[i].image_path = cli.batch.val.images[i].path
              /\ cli.results.val[i] \in
                     predict_image(EnglishClasses, cli.batch.val.images[i].path,
                                   cli.batch.val.images[i].file, cli.batch.val.top_k)
              /\ ("error" \in DOMAIN cli.results.val[i])
                     <=> ~cli.batch.val.images[i].file.readable

\* a batch whose first file cannot be read and whose second is a picture
C19_Witness ==
    /\ cli.batch # NoneVal
    /\ Len(cli.batch.val.images) = 2
    /\ ~cli.batch.val.images[1].file.readable
    /\ cli.batch.val.images[2].file.readable
    /\ "error" \in DOMAIN cli.results.val[1]
    /\ "top_prediction" \in DOMAIN cli.results.val[2]

\* C20: predict_snake never raises and on every path returns five outputs:
\* best result text, pie chart or None, detail text, knowledge text and
\* analysis-panel text; the chart is None on every path that does not succeed.
C20_FiveOutputs ==
    ret.handler = "predict_snake" =>
        /\ ~ret.raised
        /\ Len(ret.out) = 5
        /\ \A i \in {1, 3, 4, 5} : ret.out[i] # NoneVal
        /\ ret.out[2] = (IF ret.path = "success" THEN Some(<<"pie chart">>) ELSE NoneVal)
        /\ ret.path = "success" =>
              /\ Head(ret.out[1].val) = CupGlyph
              /\ SubSeq(ret.out[3].val, 1, 1) = <<"detailed results:">>
              /\ ret.out[4] = current_knowledge
              /\ Head(ret.out[5].val) = OkGlyph

\* predict_snake returned the error result of the predictor
C20_Witness ==
    /\ ret.handler = "predict_snake"
    /\ ret.path = "predictor_error"
    /\ Len(ret.out) = 5
    /\ ret.out[2] = NoneVal

\* C21: every ai_deep_analysis call whose POST went out eventually returns,
\* even if the server never responds.
C21_AnalysisReturns == (pc = "awaiting") ~> (pc = "idle")

\* C21 for a server that answers or a connection that fails
C21_AnalysisReturnsIfAnswered ==
    (pc = "awaiting" /\ request.val.server = "answers")
        ~> (pc = "idle" /\ ret.handler = "ai_deep_analysis")

\* a POST went out to a server that stays silent
C21_Witness ==
    /\ pc = "awaiting"
    /\ request.val.server = "silent"
    /\ posts = 1

\* C22: format_snake_info heads the profile of a knowledge-base entry with the
\* danger glyph exactly when the entry's safety text says highly venomous,
\* which is the Western Diamondback rattlesnake alone, and with the check
\* mark for every other entry; for a name that is not in the knowledge base
\* it returns the no-detailed-information message naming that species.
C22_DangerGlyphHeadsProfile ==
    ret.handler = "format_snake_info" =>
        IF ret.args \in DOMAIN knowledge_base
        THEN /\ Head(ret.out) =
                    (IF Contains(knowledge_base[ret.args].safety, "JuDu")
                     THEN AlarmGlyph ELSE OkGlyph)
             /\ Head(ret.out) = AlarmGlyph <=> ret.args = ChineseClasses[NumClasses]
             /\ SubSeq(ret.out, 2, 5) = <<" ", "**", ret.args, "**">>
        ELSE ret.out = <<"ZanWu", " ", ret.args, " ", "no detailed information">>

\* the profile of the rattlesnake was formatted
C22_Witness ==
    /\ ret.handler = "format_snake_info"
    /\ ret.args = "XiBuLingBanXiangWeiShe"
    /\ Head(ret.out) = AlarmGlyph

\* a name that is not in the knowledge base was asked for
C22_WitnessUnknown ==
    /\ ret.handler = "format_snake_info"
    /\ ret.args \notin DOMAIN knowledge_base
    /\ Contains(ret.out, ret.args)

\* C23: training changes only the parameters of the replaced classifier
\* layer: once the pretrained network is loaded, every entry of the network's
\* state outside the classifier keeps its pretrained value through any number
\* of epochs, and so does the state_dict that is saved.
C23_OnlyClassifierChanges ==
    net.line \notin {"load"} =>
        /\ \A n \in BackboneParameters : net.parameters[n].value = PretrainedValue(n)
        /\ \A n \in BackboneBuffers : net.buffers[n] = PretrainedValue(n)

\* C23, the part about the parameters: every backbone parameter is frozen
\* before the optimizer is built, the optimizer holds classifier parameters
\* only, and every backbone parameter keeps its pretrained value.
C23_BackboneParametersFrozen ==
    /\ net.line \notin {"load"} =>
          \A n \in BackboneParameters : net.parameters[n].value = PretrainedValue(n)
    /\ net.line \notin {"load", "freeze"} =>
          \A n \in BackboneParameters :
              ~net.parameters[n].requires_grad /\ net.parameters[n].grad = NoneVal
    /\ net.optimizer \subseteq NewClassifier

\* the model was trained and saved: the classifier moved, the backbone
\* parameters did not, the running statistics of the backbone did
C23_Witness ==
    /\ net.line = "done"
    /\ \E n \in NewClassifier : net.saved.val.parameters[n] # 0
    /\ \A n \in BackboneParameters : net.saved.val.parameters[n] = PretrainedValue(n)
    /\ \E n \in BackboneBuffers : net.saved.val.buffers[n] # PretrainedValue(n)

\* C24: get_user_location returns source 'user_input' with the stripped
\* input as 'location' when a location text is given, source 'unknown' with
\* the 'not specified' placeholder when the text is None or empty, and never
\* an empty 'location'.
C24_LocationNeverEmpty ==
    ret.handler = "get_user_location" =>
        /\ IF ret.args = NoneVal \/ ret.args = Some(<<>>)
           THEN ret.out.source = "unknown" /\ ret.out.location = <<"WeiZhiDing">>
           ELSE ret.out.source = "user_input" /\ ret.out.location = Strip(ret.args.val)
        /\ ret.out.location # <<>>

\* C24 without its last part: the source and the location for each input
C24_SourceAndLocation ==
    ret.handler = "get_user_location" =>
        IF ret.args = NoneVal \/ ret.args = Some(<<>>)
        THEN ret.out.source = "unknown" /\ ret.out.location = <<"WeiZhiDing">>
        ELSE ret.out.source = "user_input" /\ ret.out.location = Strip(ret.args.val)

\* a location text made of spaces was given
C24_Witness ==
    /\ ret.handler = "get_user_location"
    /\ ret.args = Some(<<" ", " ">>)
    /\ ret.out.source = "user_input"
    /\ ret.out.location = <<>>

\* C25: between handler calls run one at a time, current_prediction is None
\* exactly when current_knowledge is None, and when both are set
\* current_knowledge is get_snake_knowledge(current_prediction['class']).
C25_PredictionAndKnowledgeAgree ==
    /\ current_prediction = NoneVal <=> current_knowledge = NoneVal
    /\ current_prediction # NoneVal =>
          current_knowledge =
              Some(get_snake_knowledge(knowledge_base, current_prediction.val.class).ret)

\* an upload was identified, and a location update came after it
C25_Witness ==
    /\ ret.handler = "update_location_manually"
    /\ ret.path = "updated"
    /\ current_prediction # NoneVal
    /\ current_knowledge # NoneVal
    /\ current_prediction.val.class = ChineseClasses[NumClasses]

\* C26: ai_deep_analysis leaves current_prediction, current_knowledge and
\* current_location unchanged on every path; update_location_manually leaves
\* current_prediction and current_knowledge unchanged; predict_snake leaves
\* current_location unchanged.
C26_HandlerFrames ==
    [][/\ ret'.handler = "ai_deep_analysis" =>
              UNCHANGED <<current_prediction, current_knowledge, current_location>>
       /\ ret'.handler = "update_location_manually" =>
              UNCHANGED <<current_prediction, current_knowledge>>
       /\ ret'.handler = "predict_snake" => UNCHANGED current_location]_vars

\* ai_deep_analysis returned through its except clause with a prediction, a
\* knowledge text and a location in place
C26_Witness ==
    /\ ret.handler = "ai_deep_analysis"
    /\ ret.path = "exception"
    /\ current_prediction # NoneVal
    /\ current_knowledge # NoneVal
    /\ current_location.address # <<"BeiJingShi">>

\* what predict_snake returns for the picture when no other call is in progress
AloneResults(image) == predict_image(predictor.val, TempPath, image.val.file, GuiTopK)

\* C27: when two predict_snake calls for different uploads are interleaved,
\* the file temp_prediction.jpg is never overwritten or removed by one call
\* between the other call's save and its read, so each call classifies the
\* image it was given and returns the result for that image.
C27_EachCallClassifiesItsImage ==
    \A t \in Threads :
        calls[t].handler = "predict_snake" /\ calls[t].image # NoneVal =>
            /\ calls[t].line = "predict" => temp_file = Some(calls[t].image.val.file)
            /\ calls[t].result # NoneVal =>
                   calls[t].result.val \in AloneResults(calls[t].image)
            /\ calls[t].line = "returned" =>
                   /\ calls[t].ret.val.path = "success"
                   /\ calls[t].ret.val.out =
                          PredictSuccess(knowledge_base, calls[t].result.val).out

\* a call given the picture of one species returned the other species
C27_Witness ==
    \E t \in Threads :
        /\ calls[t].handler = "predict_snake"
        /\ calls[t].line = "returned"
        /\ calls[t].image = Upload(TRUE, PictureA)
        /\ calls[t].ret.val.path = "success"
        /\ calls[t].result.val.top_prediction.class = ChineseClasses[NumClasses]

\* a call found the file gone when it came to remove it
C27_WitnessRemoved ==
    \E t \in Threads :
        /\ calls[t].handler = "predict_snake"
        /\ calls[t].line = "returned"
        /\ calls[t].ret.val.path = "exception"
        /\ calls[t].result # NoneVal
        /\ "top_prediction" \in DOMAIN calls[t].result.val

\* the species, confidence and knowledge text of the prediction of a picture
PredictionOf(file) ==
    {[snake_species |-> r.top_prediction.class,
      confidence |-> r.top_prediction.confidence,
      snake_knowledge |-> get_snake_knowledge(knowledge_base, r.top_prediction.class).ret] :
         r \in predict_image(predictor.val, TempPath, file, GuiTopK)}

\* C28: when ai_deep_analysis is interleaved with a predict_snake call, the
\* species, confidence and knowledge text of one chat API request all belong
\* to the same prediction, and ai_deep_analysis returns a string rather than
\* raising if the cached prediction is cleared after its None check.
C28_RequestFromOnePrediction ==
    /\ request # NoneVal =>
          \E file \in {PictureA, PictureB} :
              [snake_species |-> request.val.prompt.snake_species,
               confidence |-> request.val.prompt.confidence,
               snake_knowledge |-> request.val.prompt.snake_knowledge]
                  \in PredictionOf(file)
    /\ \A t \in Threads :
          calls[t].handler = "ai_deep_analysis" /\ calls[t].line = "returned" =>
              ~calls[t].ret.val.raised /\ Len(calls[t].ret.val.out) > 0

\* C28, the part about the cleared prediction: every ai_deep_analysis call
\* that returned did so with a text, also when it met None after its check
C28_ClearedStillReturns ==
    \A t \in Threads :
        calls[t].handler = "ai_deep_analysis" /\ calls[t].line = "returned" =>
            /\ ~calls[t].ret.val.raised
            /\ Head(calls[t].ret.val.out) \in {ErrGlyph, RobotGlyph}

\* a request went out with the species of one picture and the confidence of
\* the other
C28_Witness ==
    /\ request # NoneVal
    /\ request.val.prompt.snake_species = ChineseClasses[1]
    /\ \E p \in PredictionOf(PictureB) : request.val.prompt.confidence = p.confidence

\* the prediction was cleared after the None check and the call returned the
\* text of its except clause
C28_WitnessCleared ==
    \E t \in Threads :
        /\ calls[t].handler = "ai_deep_analysis"
        /\ calls[t].line = "returned"
        /\ calls[t].ret.val.path = "exception"
        /\ calls[t].ret.val.out = AnalysisError("TypeError")

\* C29: in each GUI application every class name the predictor can output has
\* an entry in the knowledge base the application imports, so a successful
\* predict_snake shows and caches the profile of the predicted species and
\* never the generic fallback text.
C29_EveryClassHasProfile ==
    /\ \A app \in Apps :
          \A i \in 1..Len(AppClasses(app)) : AppClasses(app)[i] \in AppKnowledgeKeys(app)
    /\ predictor # NoneVal =>
          \A i \in 1..Len(predictor.val) : predictor.val[i] \in DOMAIN knowledge_base
    /\ ret.handler = "predict_snake" /\ ret.path = "success" =>
          /\ current_prediction.val.class \in DOMAIN knowledge_base
          /\ ret.out[4] = Some(format_snake_info(knowledge_base,
                                                 current_prediction.val.class).ret)
          /\ ret.out[4] = current_knowledge
          /\ Head(ret.out[4].val) \in {OkGlyph, AlarmGlyph}
          /\ ret.out[4] # Some(FallbackKnowledge(current_prediction.val))

\* an upload was identified as a rattlesnake and its profile shown
C29_Witness ==
    /\ ret.handler = "predict_snake"
    /\ ret.path = "success"
    /\ current_prediction.val.class = ChineseClasses[NumClasses]
    /\ Head(ret.out[4].val) = AlarmGlyph

\* the address is '<city>, <country>' of an IP lookup answer
CityAndCountry(address) ==
    \E answer \in IpAnswers :
        /\ answer.ok
        /\ Truthy(DictGet(answer.city, NoneVal))
        /\ Truthy(DictGet(answer.country_name, NoneVal))
        /\ address = answer.city.val \o <<",", " ">> \o answer.country_name.val

\* the address is the coordinate text update_location_manually writes
CoordinateText(address) ==
    /\ Len(address) > 3
    /\ address[1] = "JingDu: "
    /\ Contains(address, "WeiDu: ")

\* C30: the location text ai_deep_analysis passes to the chat API is always a
\* description of a place: '<city>, <country>' from the IP lookup, the
\* default city when the lookup yields no city and country or fails, or the
\* coordinate text of the last successful update_location_manually; never a
\* status message.
C30_LocationIsAPlace ==
    request # NoneVal =>
        \/ CityAndCountry(request.val.prompt.location)
        \/ request.val.prompt.location = DefaultLocation.address
        \/ CoordinateText(request.val.prompt.location)

\* C30 for the cases the code covers: the text is the address held in
\* current_location, stripped
C30_LocationIsCurrentAddress ==
    request # NoneVal => request.val.prompt.location = Strip(current_location.address)

\* a request went out whose location text is the message of a lookup that
\* succeeded without city and country
C30_Witness ==
    /\ request # NoneVal
    /\ request.val.prompt.location = <<"WeiZhiJianCeChengGong">>

====
